---------------------------- MODULE Spec2Model ----------------------------
(***************************************************************************)
(* A model of the ray tracer's intersection and shading pipeline:          *)
(* Intersection::hit, Intersection::prepare_computations, Shape::intersect,*)
(* Shape::normal_at, Material::lighting and the World's intersect_world,   *)
(* is_shadowed, shade_hit, color_at, reflected_color, refracted_color.     *)
(*                                                                         *)
(* Numbers.  The program computes in f64; the model computes in fixed      *)
(* point, exactly on the scenes it draws:                                  *)
(*   - lengths, coordinates and ray parameters t count quarters            *)
(*     (4 stands for 1.0, 11 for 2.75);                                    *)
(*   - vector components (directions, normals, eye vectors) count halves   *)
(*     (2 stands for 1.0, 1 for 0.5);                                      *)
(*   - colour channels, material coefficients and refractive indices count *)
(*     tenths (10 stands for 1.0, 15 for 1.5).                             *)
(* Scenes lie on the y axis: every point is (0, y, 0) and every vector is  *)
(* (0, v, 0), so a point or a vector is one integer.  On that axis the     *)
(* square roots of the sphere's quadratic and every normalisation are      *)
(* exact.  The program's 0.00001 is below the resolution of the fixed      *)
(* point numbers: a test |x| < 0.00001 of a representable x is x = 0, and  *)
(* the offset normalv * 0.00001 is one step of the length scale.           *)
(***************************************************************************)
EXTENDS Integers, Sequences, FiniteSets, TLC

(***************************************************************************)
(* Bounds of the model.                                                    *)
(***************************************************************************)
MaxLen == 3
MaxT == 1

(***************************************************************************)
(* Program constants.                                                      *)
(***************************************************************************)
EPSILON == 1
INFINITY == 1000000

(***************************************************************************)
(* Arithmetic helpers.                                                     *)
(***************************************************************************)
Abs(x) == IF x < 0 THEN -x ELSE x

Sgn(x) == IF x > 0 THEN 1 ELSE IF x < 0 THEN -1 ELSE 0

\* Division rounding toward zero, as a fixed-point quotient.
Quot(a, b) == Sgn(a) * Sgn(b) * (Abs(a) \div Abs(b))

\* the largest k in lo..hi with k * k <= n
RECURSIVE IsqrtIn(_, _, _)
IsqrtIn(n, lo, hi) ==
    IF lo >= hi THEN lo
    ELSE LET mid == (lo + hi + 1) \div 2
         IN  IF mid * mid <= n THEN IsqrtIn(n, mid, hi) ELSE IsqrtIn(n, lo, mid - 1)

\* f64::sqrt on a fixed-point square, rounded down
Isqrt(n) == IF n <= 0 THEN 0 ELSE IsqrtIn(n, 0, 46340)

None == << >>

Some(x) == << x >>

(***************************************************************************)
(* Color (crate::color): three channels in tenths.                         *)
(***************************************************************************)
Color_new(cr, cg, cb) == << cr, cg, cb >>

Black == Color_new(0, 0, 0)

White == Color_new(10, 10, 10)

\* Color + Color
Color_add(a, b) == [k \in 1..3 |-> a[k] + b[k]]

\* Color * f64, the scalar in tenths
Color_scale(a, s) == [k \in 1..3 |-> Quot(a[k] * s, 10)]

\* Color * Color
Color_mul(a, b) == [k \in 1..3 |-> Quot(a[k] * b[k], 10)]

(***************************************************************************)
(* Material.                                                               *)
(***************************************************************************)
Material_new ==
    [ color |-> White, ambient |-> 1, diffuse |-> 9, specular |-> 9,
      shininess |-> 200, pattern |-> None, reflective |-> 0,
      transparency |-> 0, refractive_index |-> 10 ]

\* impl PartialEq for Material comparing every field
Material_eq_every_field(a, b) == a = b

\* impl PartialEq for Material
Material_eq(a, b) ==
    /\ a.color = b.color
    /\ a.ambient = b.ambient
    /\ a.diffuse = b.diffuse
    /\ a.specular = b.specular
    /\ a.shininess = b.shininess

(***************************************************************************)
(* Matrix, restricted to translation(0, ty, 0) * scaling(s, s, s): ty and  *)
(* s in quarters.  s = 0 is a matrix of determinant 0.                     *)
(***************************************************************************)
Matrix_identity == [ty |-> 0, s |-> 4]

Matrix_translation(y) == [ty |-> y, s |-> 4]

Matrix_scaling(k) == [ty |-> 0, s |-> k]

\* Matrix::invertible: determinant != 0.0
invertible(m) == m.s # 0

(***************************************************************************)
(* Ray.  origin / den is the origin in quarters and direction / den the    *)
(* direction in halves; a ray built by Ray::new has den = 1, the divisor   *)
(* appears when a ray is transformed by an inverse scaling.                *)
(***************************************************************************)
Ray_new(origin, direction) == [origin |-> origin, direction |-> direction, den |-> 1]

\* Ray::position
position(r, t) == r.origin + Quot(r.direction * t, 2)

\* Ray::transform by the inverse of m (m invertible):
\* inverse = scaling(1/s) * translation(-ty)
Ray_transform_inverse(r, m) ==
    [ origin |-> 4 * (r.origin - m.ty * r.den),
      direction |-> 4 * r.direction,
      den |-> r.den * m.s ]

(***************************************************************************)
(* Shape.                                                                  *)
(***************************************************************************)
ShapeType == {"Sphere", "Plane", "Test", "Cube", "Cylinder"}

Shape_new(id, shape_type) ==
    [ id |-> id, shape_type |-> shape_type, transform |-> Matrix_identity,
      material |-> Material_new, saved_ray |-> Ray_new(0, 0),
      minimum |-> -INFINITY, maximum |-> INFINITY ]

\* Shape::glass_sphere
glass_sphere(id) ==
    [ Shape_new(id, "Sphere") EXCEPT
        !.material.transparency = 10, !.material.refractive_index = 15 ]

\* impl PartialEq for Shape
Shape_eq(a, b) ==
    /\ a.id = b.id
    /\ a.shape_type = b.shape_type
    /\ a.transform = b.transform
    /\ Material_eq(a.material, b.material)

(***************************************************************************)
(* Intersection.                                                           *)
(***************************************************************************)
Intersection_new(t, object) == [t |-> t, object |-> object]

\* impl PartialEq for Intersection
Intersection_eq(a, b) == a.t = b.t /\ Shape_eq(a.object, b.object)

\* One iteration of the loop of Intersection::hit: the accumulator
\* lowest_positive_i after element i.
hit_step_negative(lowest_positive_i, i) ==
    LET first == IF i.t >= 0 /\ lowest_positive_i = None
                 THEN Some(i) ELSE lowest_positive_i
    IN  IF first = None THEN first
        ELSE IF first[1].t > i.t THEN Some(i) ELSE first

hit_step_last_tie(lowest_positive_i, i) ==
    LET first == IF i.t >= 0 /\ lowest_positive_i = None
                 THEN Some(i) ELSE lowest_positive_i
    IN  IF first = None THEN first
        ELSE IF i.t >= 0 /\ first[1].t >= i.t THEN Some(i) ELSE first

hit_step(lowest_positive_i, i) ==
    LET first == IF i.t >= 0 /\ lowest_positive_i = None
                 THEN Some(i) ELSE lowest_positive_i
    IN  IF first = None THEN first
        ELSE IF i.t >= 0 /\ first[1].t > i.t THEN Some(i) ELSE first

RECURSIVE hit_loop(_, _, _)
hit_loop(intersections, k, lowest_positive_i) ==
    IF k > Len(intersections) THEN lowest_positive_i
    ELSE hit_loop(intersections, k + 1, hit_step(lowest_positive_i, intersections[k]))

\* Intersection::hit
hit(intersections) == hit_loop(intersections, 1, None)

(***************************************************************************)
(* RayTuple operations on the axis.                                        *)
(***************************************************************************)
NaN == "NaN"

\* RayTuple::normalize of a vector (any scale): v / |v|, in halves.  A zero
\* vector has magnitude 0 and normalises to NaN components.
normalize(v) == IF v = 0 THEN NaN ELSE 2 * Sgn(v)

\* RayTuple::dot of two vectors in halves; the result counts quarters.
dot(a, b) == a * b

\* RayTuple::reflect: self - normal * 2 * self.dot(normal), in halves.
reflect(v, normal) == v - Quot(normal * 2 * dot(v, normal), 4)

(***************************************************************************)
(* Shape::normal_at.  The caller guarantees an invertible transform (the   *)
(* program unwraps the inverse).                                           *)
(***************************************************************************)
\* object_point = inverse(transform) * world_point, as a numerator over
\* transform.s (quarters)
object_point(shape, world_point) == 4 * (world_point - shape.transform.ty)

normal_at(shape, world_point) ==
    LET op == object_point(shape, world_point)
        s  == shape.transform.s
    IN  CASE shape.shape_type = "Sphere" ->
               \* inverse.transpose * (object_point - origin), w = 0, normalised:
               \* op / (s * s) keeps the sign of op
               normalize(op)
          [] shape.shape_type = "Plane" -> 2
          [] shape.shape_type = "Test" -> normalize(op)
          [] shape.shape_type = "Cube" ->
               \* x_abs = z_abs = 0 on the axis: the y face unless y_abs = 0;
               \* the local component is returned as it is
               IF op = 0 THEN 0 ELSE Quot(2 * op, 4 * s)
          [] shape.shape_type = "Cylinder" -> 0

(***************************************************************************)
(* Intersection::prepare_computations.                                     *)
(***************************************************************************)
\* Vec::iter().position(|&s| s == object): the first index holding an equal
\* shape, 0 when there is none
RECURSIVE position_of(_, _, _)
position_of(containers, object, k) ==
    IF k > Len(containers) THEN 0
    ELSE IF Shape_eq(containers[k], object) THEN k
    ELSE position_of(containers, object, k + 1)

\* Vec::remove(index)
remove_at(containers, k) ==
    SubSeq(containers, 1, k - 1) \o SubSeq(containers, k + 1, Len(containers))

\* lines 62-66 with the shape pushed whether or not it is in containers
toggle_push_only(containers, object) == Append(containers, object)

\* lines 62-66: remove the shape when it is in containers, push it otherwise
toggle(containers, object) ==
    LET shape_index == position_of(containers, object, 1)
    IN  IF shape_index # 0 THEN remove_at(containers, shape_index)
        ELSE Append(containers, object)


\* lines 48-66: the containers after the loop has taken the elements of xs
\* from index k on, one toggle for each
RECURSIVE containers_walk(_, _, _)
containers_walk(xs, k, containers) ==
    IF k > Len(xs) THEN containers
    ELSE containers_walk(xs, k + 1, toggle(containers, xs[k].object))

\* lines 55-59 and 69-73: the index of the last container, 1.0 when empty
last_index_first(containers) ==
    IF Len(containers) = 0 THEN 10
    ELSE containers[1].material.refractive_index

last_index(containers) ==
    IF Len(containers) = 0 THEN 10
    ELSE containers[Len(containers)].material.refractive_index

\* the loop over xs, lines 53-76, from element k on; n1 and n2 start at 1.0
RECURSIVE walk_without_break(_, _, _, _, _, _)
walk_without_break(self, xs, k, containers, n1, n2) ==
    IF k > Len(xs) THEN [n1 |-> n1, n2 |-> n2]
    ELSE LET i == xs[k]
             entered == toggle(containers, i.object)
         IN  IF Intersection_eq(self, i)
             THEN walk_without_break(self, xs, k + 1, entered,
                                     last_index(containers), last_index(entered))
             ELSE walk_without_break(self, xs, k + 1, entered, n1, n2)

refraction_walk_no_break(self, xs, k, containers) ==
    walk_without_break(self, xs, k, containers, 10, 10)

\* the walk with n2 left at the hit shape's own index when the loop ends
\* without meeting the hit
RECURSIVE walk_default_own_index(_, _, _, _)
walk_default_own_index(self, xs, k, containers) ==
    IF k > Len(xs)
    THEN [n1 |-> 10, n2 |-> self.object.material.refractive_index]
    ELSE LET i == xs[k]
             entered == toggle(containers, i.object)
         IN  IF Intersection_eq(self, i)
             THEN [n1 |-> last_index(containers), n2 |-> last_index(entered)]
             ELSE walk_default_own_index(self, xs, k + 1, entered)

refraction_walk_own_index(self, xs, k, containers) ==
    walk_default_own_index(self, xs, k, containers)

RECURSIVE refraction_walk(_, _, _, _)
refraction_walk(self, xs, k, containers) ==
    IF k > Len(xs) THEN [n1 |-> 10, n2 |-> 10]
    ELSE LET i == xs[k]
             entered == toggle(containers, i.object)
         IN  IF Intersection_eq(self, i)
             THEN [n1 |-> last_index(containers), n2 |-> last_index(entered)]
             ELSE refraction_walk(self, xs, k + 1, entered)

\* Computations::under_point: the hit point offset against the normal
under_point_of(p, normalv) == p - Quot(normalv * EPSILON, 2)

\* lines 36-90 with the test of line 41 never true: the normal is left as
\* normal_at gives it
prepare_computations_unflipped(self, r, xs) ==
    LET p == position(r, self.t)
        eyev == -r.direction
        normalv == normal_at(self.object, p)
        over_point == p + Quot(normalv * EPSILON, 2)
        reflectv == reflect(r.direction, normalv)
        n == refraction_walk(self, xs, 1, << >>)
    IN  [ t |-> self.t, object |-> self.object, point |-> p,
          over_point |-> over_point, eyev |-> eyev, normalv |-> normalv,
          inside |-> FALSE, reflectv |-> reflectv, n1 |-> n.n1, n2 |-> n.n2,
          under_point |-> under_point_of(p, normalv) ]

prepare_computations(self, r, xs) ==
    LET p == position(r, self.t)
        eyev == -r.direction
        normal == normal_at(self.object, p)
        inside == dot(normal, eyev) < 0
        normalv == IF inside THEN -normal ELSE normal
        over_point == p + Quot(normalv * EPSILON, 2)
        reflectv == reflect(r.direction, normalv)
        n == refraction_walk(self, xs, 1, << >>)
    IN  [ t |-> self.t, object |-> self.object, point |-> p,
          over_point |-> over_point, eyev |-> eyev, normalv |-> normalv,
          inside |-> inside, reflectv |-> reflectv, n1 |-> n.n1, n2 |-> n.n2,
          under_point |-> under_point_of(p, normalv) ]

(***************************************************************************)
(* Shape::intersect.  The result is the sequence of intersections and the  *)
(* shape as the call leaves it (intersect takes &mut self and stores the   *)
(* local ray in saved_ray).  Each intersection holds a copy of the shape   *)
(* taken after saved_ray was stored.                                       *)
(*                                                                         *)
(* For the local ray: origin O / (4 N) and direction D / (2 N) as reals,   *)
(* with O = saved_ray.origin, D = saved_ray.direction, N = saved_ray.den.  *)
(***************************************************************************)
\* Shape::check_axis for a local origin O / (4 N) and direction D / (2 N);
\* << tmin, tmax >> in quarters
check_axis(O, D, N) ==
    LET tmin_numerator == -4 * N - O
        tmax_numerator == 4 * N - O
        tmin == IF D # 0 THEN Quot(2 * tmin_numerator, D)
                ELSE Sgn(tmin_numerator) * Sgn(N) * INFINITY
        tmax == IF D # 0 THEN Quot(2 * tmax_numerator, D)
                ELSE Sgn(tmax_numerator) * Sgn(N) * INFINITY
    IN  IF tmin > tmax THEN << tmax, tmin >> ELSE << tmin, tmax >>

\* lines 152-162: the roots of the quadratic a t^2 + b t + c
sphere_roots(self, a, b, discriminant) ==
    IF discriminant < 0 THEN << >>
    ELSE << Intersection_new(Quot(2 * (-b - Isqrt(discriminant)), a), self),
            Intersection_new(Quot(2 * (-b + Isqrt(discriminant)), a), self) >>

\* lines 146-163: the Sphere arm of Shape::intersect
sphere_intersect(self, a, b, c) == sphere_roots(self, a, b, b * b - 4 * a * c)

\* lines 176-219: the Cube arm of Shape::intersect, the three pairs
\* (tmin, tmax) of check_axis computed
cube_intersect(self, xaxis, yaxis, zaxis) ==
    LET tmin == IF xaxis[1] > yaxis[1]
                THEN IF xaxis[1] > zaxis[1] THEN xaxis[1] ELSE zaxis[1]
                ELSE IF yaxis[1] > zaxis[1] THEN yaxis[1] ELSE zaxis[1]
        tmax == IF xaxis[2] < yaxis[2]
                THEN IF xaxis[2] < zaxis[2] THEN xaxis[2] ELSE zaxis[2]
                ELSE IF yaxis[2] < zaxis[2] THEN yaxis[2] ELSE zaxis[2]
    IN  IF tmin > tmax THEN << >>
        ELSE << Intersection_new(tmin, self), Intersection_new(tmax, self) >>

\* lines 145-257: the match on shape_type, self holding the local ray
local_intersect(self) ==
    LET O == self.saved_ray.origin
        D == self.saved_ray.direction
        N == self.saved_ray.den
    IN  CASE self.shape_type = "Sphere" ->
               \* a, b, c of the quadratic, each times 16 N^2
               sphere_intersect(self, 4 * D * D, 4 * D * O, O * O - 16 * N * N)
          [] self.shape_type = "Plane" ->
               IF D = 0 THEN << >>
               ELSE << Intersection_new(Quot(-2 * O, D), self) >>
          [] self.shape_type = "Test" -> << >>
          [] self.shape_type = "Cube" ->
               \* the local ray has x = z = 0 in origin and direction
               cube_intersect(self, check_axis(0, 0, N), check_axis(O, D, N),
                              check_axis(0, 0, N))
          [] self.shape_type = "Cylinder" ->
               \* a = direction.x^2 + direction.z^2 is 0 on the axis: a <= epsilon
               << >>

\* lines 145-257: the intersections of the shape with its saved_ray
intersect_saved(self) == [xs |-> local_intersect(self), shape |-> self]

\* lines 137-143 with the identity standing in for a missing inverse
intersect_identity_fallback(self, r) ==
    IF ~invertible(self.transform)
    THEN intersect_saved([self EXCEPT !.saved_ray = Ray_transform_inverse(r, Matrix_identity)])
    ELSE intersect_saved([self EXCEPT !.saved_ray = Ray_transform_inverse(r, self.transform)])

\* lines 137-258 with the intersections holding the copy of the shape taken
\* on entry, before line 143 stores the local ray
copies_on_entry(self, xs) == [k \in 1..Len(xs) |-> Intersection_new(xs[k].t, self)]

intersect_copy_on_entry(self, r) ==
    IF ~invertible(self.transform)
    THEN [xs |-> << >>, shape |-> self]
    ELSE [ xs |-> copies_on_entry(self, intersect_saved(
                    [self EXCEPT !.saved_ray = Ray_transform_inverse(r, self.transform)]).xs),
           shape |-> [self EXCEPT !.saved_ray = Ray_transform_inverse(r, self.transform)] ]

\* lines 137-258 with the ray stored as it came, not transformed
intersect_saves_world_ray(self, r) ==
    IF ~invertible(self.transform)
    THEN [xs |-> << >>, shape |-> self]
    ELSE [ xs |-> intersect_saved(
                    [self EXCEPT !.saved_ray = Ray_transform_inverse(r, self.transform)]).xs,
           shape |-> [self EXCEPT !.saved_ray = r] ]

intersect(self, r) ==
    IF ~invertible(self.transform)
    THEN [xs |-> << >>, shape |-> self]
    ELSE intersect_saved([self EXCEPT !.saved_ray = Ray_transform_inverse(r, self.transform)])

(***************************************************************************)
(* World::intersect_world.                                                 *)
(***************************************************************************)
\* slice::sort_by with the comparator of lines 55-63 is a stable sort:
\* an element goes behind every element whose t is not greater than its own
RECURSIVE insert_sorted_unstable(_, _)
insert_sorted_unstable(sorted, i) ==
    IF sorted = << >> THEN << i >>
    ELSE IF i.t <= Head(sorted).t THEN << i >> \o sorted
    ELSE << Head(sorted) >> \o insert_sorted_unstable(Tail(sorted), i)

RECURSIVE insert_sorted(_, _)
insert_sorted(sorted, i) ==
    IF sorted = << >> THEN << i >>
    ELSE IF i.t < Head(sorted).t THEN << i >> \o sorted
    ELSE << Head(sorted) >> \o insert_sorted(Tail(sorted), i)

RECURSIVE sort_by_t(_)
sort_by_t(intersections) ==
    IF intersections = << >> THEN << >>
    ELSE insert_sorted(sort_by_t(SubSeq(intersections, 1, Len(intersections) - 1)),
                       intersections[Len(intersections)])

\* lines 51-54: the loop over the objects from index k on, appending each
\* shape's intersections and storing the shape as intersect left it
RECURSIVE intersect_all(_, _, _, _)
\* lines 52-53 with the shape stored in the first slot of the list
intersect_next_first_slot(objs, r, k, resulting_intersections, got) ==
    intersect_all([objs EXCEPT ![1] = got.shape], r, k + 1,
                  resulting_intersections \o got.xs)

\* lines 52-53: object k intersected, its result got
intersect_next(objs, r, k, resulting_intersections, got) ==
    intersect_all([objs EXCEPT ![k] = got.shape], r, k + 1,
                  resulting_intersections \o got.xs)

intersect_all(objs, r, k, resulting_intersections) ==
    IF k > Len(objs) THEN [xs |-> resulting_intersections, objects |-> objs]
    ELSE intersect_next(objs, r, k, resulting_intersections, intersect(objs[k], r))

intersect_world_unsorted(objs, r) == intersect_all(objs, r, 1, << >>)

intersect_world(objs, r) ==
    LET all == intersect_all(objs, r, 1, << >>)
    IN  [xs |-> sort_by_t(all.xs), objects |-> all.objects]

(***************************************************************************)
(* Light and Material::lighting.                                           *)
(***************************************************************************)
point_light(position_y, intensity) == [position |-> position_y, intensity |-> intensity]

\* f64::powf(base, exponent) for a base in quarters, the result in tenths;
\* computed in thousandths by repeated squaring
RECURSIVE pow_thousandths(_, _)
pow_thousandths(x, n) ==
    IF n = 0 THEN 1000
    ELSE IF n % 2 = 0 THEN pow_thousandths(Quot(x * x, 1000), n \div 2)
    ELSE Quot(x * pow_thousandths(x, n - 1), 1000)

powf(base, exponent) == Quot(pow_thousandths(base * 250, exponent), 100)

(***************************************************************************)
(* Pattern.  A point of the axis has x = z = 0 in world, object and        *)
(* pattern space.                                                          *)
(***************************************************************************)
\* the panic of Option::unwrap on None, in place of the value a call returns
Panic == << "panic" >>

\* Pattern::stripe_pattern
stripe_pattern(a, b) ==
    [pattern_type |-> "Stripe", a |-> a, b |-> b, transform |-> Matrix_identity]

\* Pattern::pattern_at for a stripe pattern: point.x.floor() % 2.0 == 0.0
\* with point.x = 0
pattern_at(pattern, point) == pattern.a

\* Pattern::pattern_at_shape: both inverses are unwrapped
pattern_at_shape(pattern, object, world_point) ==
    IF ~invertible(object.transform) \/ ~invertible(pattern.transform)
    THEN Panic
    ELSE pattern_at(pattern, Quot(4 * object_point(object, world_point),
                                  object.transform.s * pattern.transform.s))

\* Material::lighting, lines 46-49
pattern_color_of(material, shape, point) ==
    IF material.pattern = None THEN material.color
    ELSE pattern_at_shape(material.pattern[1], shape, point)

\* lines 51-90 with in_shadow left out of the test of line 65
lighting_with_shadow_ignored(pattern_color, material, light, point, eyev, normalv, in_shadow) ==
    LET effective_color == Color_mul(pattern_color, light.intensity)
        lightv == normalize(light.position - point)
        ambient == Color_scale(effective_color, material.ambient)
        light_dot_normal == dot(lightv, normalv)
        diffuse == Color_scale(Color_scale(effective_color, material.diffuse),
                               Quot(10 * light_dot_normal, 4))
        reflectv == -reflect(lightv, normalv)
        reflect_dot_eye == dot(reflectv, eyev)
        factor == powf(reflect_dot_eye, material.shininess)
        specular == Color_scale(Color_scale(light.intensity, material.specular), factor)
    IN  IF light_dot_normal < 0 THEN ambient
        ELSE IF reflect_dot_eye <= 0 THEN Color_add(ambient, diffuse)
        ELSE Color_add(Color_add(ambient, diffuse), specular)

\* Material::lighting, lines 51-90, with the pattern's colour computed
lighting_with(pattern_color, material, light, point, eyev, normalv, in_shadow) ==
    LET effective_color == Color_mul(pattern_color, light.intensity)
        lightv == normalize(light.position - point)
        ambient == Color_scale(effective_color, material.ambient)
        light_dot_normal == dot(lightv, normalv)
        diffuse == Color_scale(Color_scale(effective_color, material.diffuse),
                               Quot(10 * light_dot_normal, 4))
        reflectv == -reflect(lightv, normalv)
        reflect_dot_eye == dot(reflectv, eyev)
        factor == powf(reflect_dot_eye, material.shininess)
        specular == Color_scale(Color_scale(light.intensity, material.specular), factor)
    IN  IF light_dot_normal < 0 \/ in_shadow THEN ambient
        ELSE IF reflect_dot_eye <= 0 THEN Color_add(ambient, diffuse)
        ELSE Color_add(Color_add(ambient, diffuse), specular)

\* Material::lighting
lighting(material, shape, light, point, eyev, normalv, in_shadow) ==
    IF pattern_color_of(material, shape, point) = Panic THEN Panic
    ELSE lighting_with(pattern_color_of(material, shape, point), material, light,
                       point, eyev, normalv, in_shadow)

\* lines 103-118 with the comparison against the distance left out
is_shadowed_any_hit(light, objs, p) ==
    LET got == intersect_world(objs, Ray_new(p, normalize(light.position - p)))
    IN  [shadowed |-> hit(got.xs) # None, objects |-> got.objects]

(***************************************************************************)
(* World::is_shadowed: the answer and the objects as the call leaves them. *)
(***************************************************************************)
is_shadowed(light, objs, p) ==
    LET v == light.position - p
        distance == Abs(v)
        direction == normalize(v)
        got == intersect_world(objs, Ray_new(p, direction))
        h == hit(got.xs)
    IN  [shadowed |-> h # None /\ h[1].t < distance, objects |-> got.objects]

(***************************************************************************)
(* Intersection::schlick is called by shade_hit and is not part of the     *)
(* sources at hand: the Schlick approximation, the reflectance in tenths.  *)
(***************************************************************************)
schlick(comps) ==
    LET cos_q == dot(comps.eyev, comps.normalv)
        \* sin2_t = (n1 / n2)^2 * (1 - cos^2), as numerator and denominator
        sin2_t_num == comps.n1 * comps.n1 * (16 - cos_q * cos_q)
        sin2_t_den == 16 * comps.n2 * comps.n2
        total == comps.n1 > comps.n2 /\ sin2_t_num > sin2_t_den
        \* the cosine used, in thousandths
        cos_m == IF comps.n1 > comps.n2
                 THEN 10 * Isqrt(Quot(10000 * (sin2_t_den - sin2_t_num), sin2_t_den))
                 ELSE 250 * cos_q
        r0 == Quot(1000 * (comps.n1 - comps.n2) * (comps.n1 - comps.n2),
                   (comps.n1 + comps.n2) * (comps.n1 + comps.n2))
        fifth == pow_thousandths(1000 - cos_m, 5)
    IN  IF total THEN 10
        ELSE Quot(r0 + Quot((1000 - r0) * fifth, 1000), 100)

(***************************************************************************)
(* The World and the calls in progress.                                    *)
(*   light, objects  the World's fields                                    *)
(*   next_id         the next fresh shape id (Uuid::new_v4)                *)
(*   stack           the frames of the calls in progress, innermost last   *)
(*   call            the call the program's user made last                 *)
(*   retval          the value returned by the call that returned last     *)
(***************************************************************************)
VARIABLES light, objects, next_id, stack, call, retval

vars == << light, objects, next_id, stack, call, retval >>

MaxObjects == 2
MaxDepth == 2

Frame(fn, r, comps, remaining) ==
    [ fn |-> fn, pc |-> "start", r |-> r, comps |-> comps, remaining |-> remaining,
      surface |-> Black, reflected |-> Black ]

Call(fn, xs, self, r, comps, remaining) ==
    [ fn |-> fn, xs |-> xs, self |-> self, r |-> r, comps |-> comps,
      remaining |-> remaining ]

NoCall == Call("none", << >>, None, None, None, 0)

Top == stack[Len(stack)]

Pop == SubSeq(stack, 1, Len(stack) - 1)

\* the caller's frame moved to pc, with the callee's frame on top of it
PushFrom(pc, frame) == Append([stack EXCEPT ![Len(stack)].pc = pc], frame)

Running(fn, pc) == stack # << >> /\ Top.fn = fn /\ Top.pc = pc

\* World::new, the light moved onto the axis
World_light == point_light(40, White)

Init ==
    /\ light = World_light
    /\ objects = << >>
    /\ next_id = 1
    /\ stack = << >>
    /\ call = NoCall
    /\ retval = None

(***************************************************************************)
(* The shapes a user adds to the World and the rays a user casts.          *)
(***************************************************************************)
\* the shapes of the tests of world.rs, on the axis
Catalog(id) ==
    { Shape_new(id, "Sphere"),
      [glass_sphere(id) EXCEPT !.transform = Matrix_scaling(8)],
      [Shape_new(id, "Plane") EXCEPT !.transform = Matrix_translation(-4),
                                    !.material.reflective = 10],
      [Shape_new(id, "Cube") EXCEPT !.material.reflective = 5,
                                   !.material.transparency = 5,
                                   !.material.refractive_index = 15],
      [Shape_new(id, "Sphere") EXCEPT !.transform = Matrix_scaling(0)] }

\* rays along the axis: from below, from above, and one of half the unit
\* speed
Rays ==
    { Ray_new(-20, 2), Ray_new(20, -2), Ray_new(-20, 1) }

\* the recursion budgets a user passes: spent, negative, and the largest
Depths == {-1, 0, MaxDepth}

Idle == stack = << >>

(***************************************************************************)
(* Shape::intersect called on a shape of the user's own, as the tests of   *)
(* shape.rs call it.                                                       *)
(***************************************************************************)
\* identity, a uniform scaling, a translation, a mirroring, and the
\* scaling by 0, which has no inverse
Transforms ==
    { Matrix_identity, Matrix_scaling(8), Matrix_translation(-4), Matrix_scaling(-4),
      Matrix_scaling(0) }

\* a shape of every kind under every transform; the id is a fresh Uuid
Shapes ==
    { [Shape_new(0, shape_type) EXCEPT !.transform = m] :
        shape_type \in ShapeType, m \in Transforms }

\* shape.intersect(r): the call with the shape as it was, the intersections
\* and the shape as the call left it
Call_intersect ==
    /\ Idle
    /\ call = NoCall
    /\ \E shape \in Shapes, r \in Rays :
         /\ call' = [fn |-> "intersect", shape |-> shape, r |-> r]
         /\ retval' = intersect(shape, r)
    /\ UNCHANGED << light, objects, next_id, stack >>

\* w.objects.push(shape), the shape built with a fresh id
AddObject ==
    /\ Idle
    /\ call = NoCall
    /\ Len(objects) < MaxObjects
    /\ \E shape \in Catalog(next_id) :
         /\ objects' = Append(objects, shape)
         /\ next_id' = next_id + 1
    /\ UNCHANGED << light, stack, call, retval >>

(***************************************************************************)
(* World::color_at, lines 91-101.                                          *)
(***************************************************************************)
\* lines 95-96: the list handed to prepare_computations
color_at_list(xs) == << >>

Call_color_at ==
    /\ Idle
    /\ call = NoCall
    /\ \E r \in Rays, remaining \in Depths :
         /\ call' = Call("color_at", << >>, None, Some(r), None, remaining)
         /\ stack' = << Frame("color_at", Some(r), None, remaining) >>
    /\ UNCHANGED << light, objects, next_id, retval >>

color_at_hit ==
    /\ Running("color_at", "start")
    /\ LET r == Top.r[1]
           got == intersect_world(objects, r)
           option_hit == hit(got.xs)
       IN  /\ option_hit # None
           /\ LET comps == prepare_computations(option_hit[1], r, color_at_list(got.xs))
              IN  stack' = PushFrom("shade_hit",
                                    Frame("shade_hit", None, Some(comps), Top.remaining))
           /\ objects' = got.objects
    /\ UNCHANGED << light, next_id, call, retval >>

\* line 99 returning white
color_at_miss_white ==
    /\ Running("color_at", "start")
    /\ LET got == intersect_world(objects, Top.r[1])
       IN  /\ hit(got.xs) = None
           /\ objects' = got.objects
    /\ stack' = Pop
    /\ retval' = White
    /\ UNCHANGED << light, next_id, call >>

color_at_miss ==
    /\ Running("color_at", "start")
    /\ LET got == intersect_world(objects, Top.r[1])
       IN  /\ hit(got.xs) = None
           /\ objects' = got.objects
    /\ stack' = Pop
    /\ retval' = Black
    /\ UNCHANGED << light, next_id, call >>

color_at_return ==
    /\ Running("color_at", "shade_hit")
    /\ stack' = Pop
    /\ UNCHANGED << light, objects, next_id, call, retval >>

\* lines 82-88 with the weighted branch never taken
shade_hit_result_unweighted(comps, surface, reflected, refracted) ==
    Color_add(Color_add(surface, reflected), refracted)

(***************************************************************************)
(* World::shade_hit, lines 67-89.                                          *)
(***************************************************************************)
\* lines 82-88, with the three colours computed
shade_hit_result(comps, surface, reflected, refracted) ==
    LET material == comps.object.material
    IN  IF material.reflective > 0 /\ material.transparency > 0
        THEN LET reflectance == schlick(comps)
             IN  Color_add(Color_add(surface, Color_scale(reflected, reflectance)),
                           Color_scale(refracted, 10 - reflectance))
        ELSE Color_add(Color_add(surface, reflected), refracted)

shade_hit_start ==
    /\ Running("shade_hit", "start")
    /\ LET comps == Top.comps[1]
           sh == is_shadowed(light, objects, comps.over_point)
           surface == lighting(comps.object.material, comps.object, light,
                               comps.over_point, comps.eyev, comps.normalv, sh.shadowed)
       IN  /\ surface # Panic
           /\ objects' = sh.objects
           /\ stack' = Append([stack EXCEPT ![Len(stack)].pc = "reflected_color",
                                            ![Len(stack)].surface = surface],
                              Frame("reflected_color", None, Top.comps, Top.remaining))
    /\ UNCHANGED << light, next_id, call, retval >>

\* line 69: the panic of pattern_at_shape unwinds every call in progress
shade_hit_panic ==
    /\ Running("shade_hit", "start")
    /\ pattern_color_of(Top.comps[1].object.material, Top.comps[1].object,
                        Top.comps[1].over_point) = Panic
    /\ objects' = is_shadowed(light, objects, Top.comps[1].over_point).objects
    /\ stack' = << >>
    /\ retval' = Panic
    /\ UNCHANGED << light, next_id, call >>

shade_hit_reflected ==
    /\ Running("shade_hit", "reflected_color")
    /\ stack' = Append([stack EXCEPT ![Len(stack)].pc = "refracted_color",
                                     ![Len(stack)].reflected = retval],
                       Frame("refracted_color", None, Top.comps, Top.remaining))
    /\ UNCHANGED << light, objects, next_id, call, retval >>

shade_hit_return ==
    /\ Running("shade_hit", "refracted_color")
    /\ retval' = shade_hit_result(Top.comps[1], Top.surface, Top.reflected, retval)
    /\ stack' = Pop
    /\ UNCHANGED << light, objects, next_id, call >>

\* line 121 with the test of the budget left out
reflected_color_stops_reflective_only(comps, remaining) ==
    comps.object.material.reflective = 0

(***************************************************************************)
(* World::reflected_color, lines 120-129.                                  *)
(***************************************************************************)
\* line 121
reflected_color_stops_negative_only(comps, remaining) ==
    remaining < 0 \/ comps.object.material.reflective = 0

reflected_color_stops(comps, remaining) ==
    remaining < 1 \/ comps.object.material.reflective = 0

reflected_color_black ==
    /\ Running("reflected_color", "start")
    /\ reflected_color_stops(Top.comps[1], Top.remaining)
    /\ retval' = Black
    /\ stack' = Pop
    /\ UNCHANGED << light, objects, next_id, call >>

reflected_color_cast ==
    /\ Running("reflected_color", "start")
    /\ ~reflected_color_stops(Top.comps[1], Top.remaining)
    /\ LET reflect_ray == Ray_new(Top.comps[1].over_point, Top.comps[1].reflectv)
       IN  stack' = PushFrom("color_at",
                             Frame("color_at", Some(reflect_ray), None, Top.remaining - 1))
    /\ UNCHANGED << light, objects, next_id, call, retval >>

reflected_color_return ==
    /\ Running("reflected_color", "color_at")
    /\ retval' = Color_scale(retval, Top.comps[1].object.material.reflective)
    /\ stack' = Pop
    /\ UNCHANGED << light, objects, next_id, call >>

(***************************************************************************)
(* World::refracted_color, lines 131-147.                                  *)
(***************************************************************************)
\* lines 132-134: sin2_t = n_ratio^2 * (1 - cos_i^2) as a fraction, cos_i =
\* eyev . normalv in quarters
sin2_t_num(comps) ==
    comps.n1 * comps.n1 * (16 - dot(comps.eyev, comps.normalv) * dot(comps.eyev, comps.normalv))

sin2_t_den(comps) == 16 * comps.n2 * comps.n2

\* sin2_t > 1.0
total_internal_reflection(comps) == sin2_t_num(comps) > sin2_t_den(comps)

\* line 136 with the test of the budget left out
refracted_color_stops_no_depth(comps, remaining) ==
    comps.object.material.transparency = 0 \/ total_internal_reflection(comps)

\* line 136 with the budget tested for remaining < 0
refracted_color_stops_below_zero(comps, remaining) ==
    \/ remaining < 0
    \/ comps.object.material.transparency = 0
    \/ total_internal_reflection(comps)

\* line 136
refracted_color_stops(comps, remaining) ==
    \/ remaining = 0
    \/ comps.object.material.transparency = 0
    \/ total_internal_reflection(comps)

\* lines 139-140: cos_t = sqrt(1 - sin2_t) and the direction, in halves
refracted_direction(comps) ==
    LET cos_i == dot(comps.eyev, comps.normalv)
        cos_t == Isqrt(Quot(4 * (sin2_t_den(comps) - sin2_t_num(comps)), sin2_t_den(comps)))
    IN  Quot(comps.normalv * comps.n1 * cos_i
               - 2 * comps.n2 * comps.normalv * cos_t
               - 4 * comps.eyev * comps.n1,
             4 * comps.n2)

refracted_color_black ==
    /\ Running("refracted_color", "start")
    /\ refracted_color_stops(Top.comps[1], Top.remaining)
    /\ retval' = Black
    /\ stack' = Pop
    /\ UNCHANGED << light, objects, next_id, call >>

\* lines 139-144 with the refracted ray starting at over_point
refracted_color_cast_from_over ==
    /\ Running("refracted_color", "start")
    /\ ~refracted_color_stops(Top.comps[1], Top.remaining)
    /\ LET refract_ray == Ray_new(Top.comps[1].over_point, refracted_direction(Top.comps[1]))
       IN  stack' = PushFrom("color_at",
                             Frame("color_at", Some(refract_ray), None, Top.remaining - 1))
    /\ UNCHANGED << light, objects, next_id, call, retval >>

refracted_color_cast ==
    /\ Running("refracted_color", "start")
    /\ ~refracted_color_stops(Top.comps[1], Top.remaining)
    /\ LET refract_ray == Ray_new(Top.comps[1].under_point, refracted_direction(Top.comps[1]))
       IN  stack' = PushFrom("color_at",
                             Frame("color_at", Some(refract_ray), None, Top.remaining - 1))
    /\ UNCHANGED << light, objects, next_id, call, retval >>

refracted_color_return ==
    /\ Running("refracted_color", "color_at")
    /\ retval' = Color_scale(retval, Top.comps[1].object.material.transparency)
    /\ stack' = Pop
    /\ UNCHANGED << light, objects, next_id, call >>

(***************************************************************************)
(* Calls made by the user of the World, as the tests of world.rs make      *)
(* them: the computations of one intersection of a ray, prepared with the  *)
(* ray's sorted list or with an empty list, handed to shade_hit,           *)
(* reflected_color or refracted_color.  The tests of reflected_color       *)
(* prepare with an empty list, those of refracted_color with the ray's     *)
(* list, those of shade_hit with either.                                   *)
(***************************************************************************)
Call_with_comps(fn, lists) ==
    \E r \in Rays, remaining \in Depths, with_list \in lists :
      LET got == intersect_world(objects, r)
      IN  \E k \in 1..Len(got.xs) :
            LET xs == IF with_list THEN got.xs ELSE << >>
                comps == prepare_computations(got.xs[k], r, xs)
            IN  /\ objects' = got.objects
                /\ call' = Call(fn, xs, Some(got.xs[k]), Some(r), Some(comps), remaining)
                /\ stack' = << Frame(fn, None, Some(comps), remaining) >>

\* w.shade_hit(comps, remaining)
Call_shade_hit ==
    /\ Idle
    /\ call = NoCall
    /\ Call_with_comps("shade_hit", BOOLEAN)
    /\ UNCHANGED << light, next_id, retval >>

\* w.reflected_color(comps, remaining)
Call_reflected_color ==
    /\ Idle
    /\ call = NoCall
    /\ Call_with_comps("reflected_color", {FALSE})
    /\ UNCHANGED << light, next_id, retval >>

\* w.refracted_color(comps, remaining)
Call_refracted_color ==
    /\ Idle
    /\ call = NoCall
    /\ Call_with_comps("refracted_color", {TRUE})
    /\ UNCHANGED << light, next_id, retval >>

\* w.intersect_world(r)
Call_intersect_world ==
    /\ Idle
    /\ call = NoCall
    /\ \E r \in Rays :
         LET got == intersect_world(objects, r)
         IN  /\ objects' = got.objects
             /\ retval' = got.xs
             /\ call' = Call("intersect_world", << >>, None, Some(r), None, 0)
    /\ UNCHANGED << light, next_id, stack >>

Next ==
    \/ AddObject
    \/ Call_color_at
    \/ Call_shade_hit
    \/ Call_reflected_color
    \/ Call_refracted_color
    \/ Call_intersect_world
    \/ Call_intersect
    \/ color_at_hit
    \/ color_at_miss
    \/ color_at_return
    \/ shade_hit_start
    \/ shade_hit_reflected
    \/ shade_hit_return
    \/ reflected_color_black
    \/ reflected_color_cast
    \/ reflected_color_return
    \/ refracted_color_black
    \/ refracted_color_cast
    \/ refracted_color_return

Spec == Init /\ [][Next]_vars

(***************************************************************************)
(* Worlds whose shapes carry a pattern, as chapter_ten_patterns builds      *)
(* them.                                                                   *)
(***************************************************************************)
\* a sphere with a stripe pattern scaled by 8, and one whose pattern is
\* scaled by 0
PatternCatalog(id) ==
    { [Shape_new(id, "Sphere") EXCEPT
         !.material.pattern = Some([stripe_pattern(White, Black) EXCEPT
                                      !.transform = m]) ] :
        m \in { Matrix_scaling(8), Matrix_scaling(0) } }

\* w.objects.push(shape) for a shape with a pattern
AddPatterned ==
    /\ Idle
    /\ call = NoCall
    /\ Len(objects) < MaxObjects
    /\ \E shape \in PatternCatalog(next_id) :
         /\ objects' = Append(objects, shape)
         /\ next_id' = next_id + 1
    /\ UNCHANGED << light, stack, call, retval >>

NextPattern ==
    \/ Next
    \/ AddPatterned
    \/ shade_hit_panic

SpecPattern == Init /\ [][NextPattern]_vars

(***************************************************************************)
(* The program is sequential: a call in progress always takes its next     *)
(* step.  Which call the user makes, and whether any, is left open.        *)
(***************************************************************************)
Step ==
    \/ color_at_hit
    \/ color_at_miss
    \/ color_at_return
    \/ shade_hit_start
    \/ shade_hit_reflected
    \/ shade_hit_return
    \/ reflected_color_black
    \/ reflected_color_cast
    \/ reflected_color_return
    \/ refracted_color_black
    \/ refracted_color_cast
    \/ refracted_color_return

\* weak fairness of Step, WF_vars(Step), written out with ENABLED <<Step>>_vars
\* replaced by its value: a step is possible exactly while a call is in
\* progress (of each pair hit/miss, black/cast one is possible, and every
\* step changes the stack)
Progress == []<>Idle \/ []<><<Step>>_vars

SpecLive == Spec /\ Progress

(***************************************************************************)
(* Intersection::hit and Intersection::prepare_computations called on      *)
(* hand-built lists, as the tests of intersection.rs call them.  The World *)
(* stays as World::new left it.                                            *)
(***************************************************************************)
\* the spheres of tests::finding_n_at_various_intersections: scaling(2,2,2),
\* translation(0,0,-0.25), translation(0,0,0.25), the axis of the test taken
\* as the model's axis
GlassA ==
    [glass_sphere(1) EXCEPT !.transform = Matrix_scaling(8),
                            !.material.refractive_index = 15]

GlassB ==
    [glass_sphere(2) EXCEPT !.transform = Matrix_translation(-1),
                            !.material.refractive_index = 20]

GlassC ==
    [glass_sphere(3) EXCEPT !.transform = Matrix_translation(1),
                            !.material.refractive_index = 25]

\* GlassA with another refractive index: Shape's == does not tell them apart
GlassA2 == [GlassA EXCEPT !.material.refractive_index = 20]

\* the list of the test: t = 2, 2.75, 3.25, 4.75, 5.25, 6
GlassXs ==
    << Intersection_new(8, GlassA), Intersection_new(11, GlassB),
       Intersection_new(13, GlassC), Intersection_new(19, GlassB),
       Intersection_new(21, GlassC), Intersection_new(24, GlassA) >>

\* the ray of the test: from (0,0,-4) along the axis
GlassRay == Ray_new(-16, 2)

Pool == { GlassA, GlassB, GlassA2 }

TVals == -1..MaxT

InputElems == { Intersection_new(t, object) : t \in TVals, object \in Pool }

\* every list of at most MaxLen elements, and the list of the test
InputLists ==
    UNION { [1..n -> InputElems] : n \in 0..MaxLen } \cup { GlassXs }

\* intersections that are in no generic list
AbsentElems == { Intersection_new(MaxT + 1, object) : object \in Pool }

\* Intersection::hit(xs)
Call_hit ==
    /\ Idle
    /\ call = NoCall
    /\ \E xs \in InputLists :
         /\ call' = Call("hit", xs, None, None, None, 0)
         /\ retval' = hit(xs)
    /\ UNCHANGED << light, objects, next_id, stack >>

\* self.prepare_computations(r, &xs), self an element of xs or not
Call_prepare_computations ==
    /\ Idle
    /\ call = NoCall
    /\ \E xs \in InputLists :
         \E self \in { xs[k] : k \in 1..Len(xs) } \cup AbsentElems :
           /\ call' = Call("prepare_computations", xs, Some(self), Some(GlassRay), None, 0)
           /\ retval' = prepare_computations(self, GlassRay, xs)
    /\ UNCHANGED << light, objects, next_id, stack >>

NextHit ==
    \/ Call_hit
    \/ Call_prepare_computations

SpecHit == Init /\ [][NextHit]_vars

(***************************************************************************)
(* World::is_shadowed called by the user of the World, as the tests of     *)
(* world.rs call it, after the light was moved.                            *)
(***************************************************************************)
\* the light of World::new and a light on the upper face of the unit cube
\* and of the unit sphere
Lights == { World_light, point_light(4, White) }

\* points below the shapes, inside them, between them and the light of
\* World::new, and beyond that light
Points == {-20, 0, 20, 60}

\* w.light = Light::point_light(..)
SetLight ==
    /\ Idle
    /\ call = NoCall
    /\ \E l \in Lights \ {light} : light' = l
    /\ UNCHANGED << objects, next_id, stack, call, retval >>

\* w.is_shadowed(p)
Call_is_shadowed ==
    /\ Idle
    /\ call = NoCall
    /\ \E p \in Points \ {light.position} :
         /\ objects' = is_shadowed(light, objects, p).objects
         /\ retval' = is_shadowed(light, objects, p).shadowed
         /\ call' = [fn |-> "is_shadowed", p |-> p]
    /\ UNCHANGED << light, next_id, stack >>

NextShadow ==
    \/ AddObject
    \/ SetLight
    \/ Call_is_shadowed

SpecShadow == Init /\ [][NextShadow]_vars

(***************************************************************************)
(* Canvas and Camera.  A canvas is the tuple << width, height, pixels >>.  *)
(* The lengths of a camera of hsize x vsize pixels and a field of view of  *)
(* pi / 2 (half_view = 1) are counted in units of 1 / (hsize * vsize).     *)
(***************************************************************************)
MaxSize == 2

Canvas_new(width, height) ==
    << width, height, [k \in 1..(width * height) |-> Black] >>

\* Canvas::write_pixel with the index computed as x * width + y
write_pixel_column_major(canvas, x, y, c) ==
    LET i == x * canvas[1] + y
    IN  IF i < 0 \/ i >= Len(canvas[3]) THEN Panic
        ELSE << canvas[1], canvas[2], [canvas[3] EXCEPT ![i + 1] = c] >>

\* Canvas::write_pixel: pixels.get_mut(i).unwrap()
write_pixel(canvas, x, y, c) ==
    LET i == y * canvas[1] + x
    IN  IF i < 0 \/ i >= Len(canvas[3]) THEN Panic
        ELSE << canvas[1], canvas[2], [canvas[3] EXCEPT ![i + 1] = c] >>

\* Camera::new(hsize, vsize, FRAC_PI_2)
Camera_new(hsize, vsize) ==
    LET half_view == hsize * vsize
        half_width == IF hsize >= vsize THEN half_view ELSE hsize * hsize
        half_height == IF hsize >= vsize THEN vsize * vsize ELSE half_view
    IN  [ hsize |-> hsize, vsize |-> vsize, transform |-> Matrix_identity,
          pixel_size |-> Quot(half_width * 2, hsize),
          half_width |-> half_width, half_height |-> half_height ]

\* Camera::ray_for_pixel: the inverse of the transform is unwrapped.  The
\* ray is << origin, direction >>, the origin a point << x, y, z >> in
\* quarters and the direction a vector of the direction's direction, its
\* length, which normalize sets to 1, left open.
ray_for_pixel(camera, px, py) ==
    LET xoffset == Quot((2 * px + 1) * camera.pixel_size, 2)
        yoffset == Quot((2 * py + 1) * camera.pixel_size, 2)
        world_x == camera.half_width - xoffset
        world_y == camera.half_height - yoffset
        s == camera.transform.s
    IN  IF ~invertible(camera.transform) THEN Panic
        ELSE << << 0, Quot(-4 * camera.transform.ty, s), 0 >>,
                << world_x * Sgn(s), world_y * Sgn(s),
                   -(camera.hsize * camera.vsize) * Sgn(s) >> >>

\* cameras of every size up to MaxSize: as Camera::new leaves them, moved
\* along the axis, and with a transform of determinant 0
Cameras ==
    { [Camera_new(hsize, vsize) EXCEPT !.transform = m] :
        hsize \in 1..MaxSize, vsize \in 1..MaxSize,
        m \in { Matrix_identity, Matrix_translation(-20), Matrix_scaling(0) } }

\* the colours World::color_at may return for the ray of a pixel, which
\* leaves the axis: any of these
PixelColors == { Black, White, Color_new(10, 0, 0) }

\* c.ray_for_pixel(px, py)
Call_ray_for_pixel ==
    /\ Idle
    /\ call = NoCall
    /\ \E camera \in Cameras :
         \E px \in 0..(camera.hsize - 1), py \in 0..(camera.vsize - 1) :
           /\ call' = [fn |-> "ray_for_pixel", camera |-> camera, px |-> px, py |-> py]
           /\ retval' = ray_for_pixel(camera, px, py)
    /\ UNCHANGED << light, objects, next_id, stack >>

\* c.render(w), lines 61-64: the canvas is built and the loops start.  The
\* call keeps the log of the pixels written: coordinates, ray and colour.
Call_render ==
    /\ Idle
    /\ call = NoCall
    /\ \E camera \in Cameras :
         /\ call' = [fn |-> "render", camera |-> camera, log |-> << >>]
         /\ stack' = << [ fn |-> "render", pc |-> "pixel", camera |-> camera,
                          x |-> 0, y |-> 0,
                          image |-> Canvas_new(camera.hsize, camera.vsize) ] >>
    /\ UNCHANGED << light, objects, next_id, retval >>

\* lines 65-70, one turn of the inner loop: the ray of the pixel, its
\* colour, the write, and the step to the next pixel of the row or to the
\* next row
render_pixel ==
    /\ Running("render", "pixel")
    /\ Top.y < Top.camera.vsize
    /\ invertible(Top.camera.transform)
    /\ \E color \in PixelColors :
         IF write_pixel(Top.image, Top.x, Top.y, color) = Panic
         THEN /\ stack' = << >>
              /\ retval' = Panic
              /\ call' = call
         ELSE /\ stack' = << [ Top EXCEPT
                                 !.image = write_pixel(Top.image, Top.x, Top.y, color),
                                 !.x = IF Top.x + 1 < Top.camera.hsize THEN Top.x + 1 ELSE 0,
                                 !.y = IF Top.x + 1 < Top.camera.hsize THEN Top.y
                                       ELSE Top.y + 1 ] >>
              /\ retval' = retval
              /\ call' = [ call EXCEPT
                             !.log = Append(@, [ x |-> Top.x, y |-> Top.y,
                                                 ray |-> ray_for_pixel(Top.camera, Top.x, Top.y),
                                                 color |-> color ]) ]
    /\ UNCHANGED << light, objects, next_id >>

\* line 67: ray_for_pixel panics and render with it
render_panic ==
    /\ Running("render", "pixel")
    /\ Top.y < Top.camera.vsize
    /\ ~invertible(Top.camera.transform)
    /\ stack' = << >>
    /\ retval' = Panic
    /\ UNCHANGED << light, objects, next_id, call >>

\* line 72: the loops are over and the canvas is returned
render_return ==
    /\ Running("render", "pixel")
    /\ Top.y >= Top.camera.vsize
    /\ stack' = << >>
    /\ retval' = Top.image
    /\ UNCHANGED << light, objects, next_id, call >>

NextRender ==
    \/ Call_ray_for_pixel
    \/ Call_render
    \/ render_pixel
    \/ render_panic
    \/ render_return

SpecRender == Init /\ [][NextRender]_vars

(***************************************************************************)
(* Properties of Intersection::hit (specification SpecHit).                *)
(***************************************************************************)
NonNegative(xs) == { k \in 1..Len(xs) : xs[k].t >= 0 }

HitCalled == call.fn = "hit"

\* C1: for every sequence of intersections, in any order, hit returns None
\* when every t is negative; otherwise it returns an element of the sequence
\* whose t is non-negative (0 included) and not greater than the t of any
\* non-negative element; it never returns an element of negative t.
C1_hit_lowest_nonnegative ==
    HitCalled =>
      LET xs == call.xs
      IN  /\ NonNegative(xs) = {} => retval = None
          /\ NonNegative(xs) # {} =>
               /\ retval # None
               /\ \E k \in NonNegative(xs) : xs[k] = retval[1]
               /\ \A j \in NonNegative(xs) : retval[1].t <= xs[j].t
          /\ retval # None => retval[1].t >= 0

\* hit skipped a negative t that comes after the element it returns, and
\* returned an element of t = 0
C1_witness ==
    /\ HitCalled
    /\ retval # None
    /\ retval[1].t = 0
    /\ \E k, j \in 1..Len(call.xs) :
         /\ k < j
         /\ call.xs[k] = retval[1]
         /\ call.xs[j].t < 0
    /\ \E k \in 1..Len(call.xs) : call.xs[k].t > 0

\* the positions of the elements whose t is the least non-negative t
Minimal(xs) ==
    { k \in NonNegative(xs) : \A j \in NonNegative(xs) : xs[k].t <= xs[j].t }

\* C2: when several elements of the sequence share the least non-negative t,
\* hit returns the one that comes first in the sequence.
C2_hit_first_of_ties ==
    HitCalled /\ Minimal(call.xs) # {} =>
      LET first == CHOOSE k \in Minimal(call.xs) : \A j \in Minimal(call.xs) : k <= j
      IN  retval = Some(call.xs[first])

\* two different shapes tie at the least non-negative t, behind an element
\* of greater t, and the first of the two is returned
C2_witness ==
    /\ HitCalled
    /\ \E k, j \in Minimal(call.xs) :
         /\ 1 < k
         /\ k < j
         /\ call.xs[k].object # call.xs[j].object
         /\ retval = Some(call.xs[k])
         /\ \A m \in Minimal(call.xs) : k <= m

(***************************************************************************)
(* Properties of Intersection::prepare_computations (specification         *)
(* SpecHit).                                                               *)
(***************************************************************************)
Prepared == call.fn = "prepare_computations"

\* the pairs (n1, n2) expected at the six intersections, in tenths
GlassPairs ==
    << << 10, 15 >>, << 15, 20 >>, << 20, 25 >>,
       << 25, 25 >>, << 25, 15 >>, << 15, 10 >> >>

\* C3: for glass shapes A, B, C of indices 1.5, 2.0, 2.5 and the list
\* [A, B, C, B, C, A] at t = 2, 2.75, 3.25, 4.75, 5.25, 6, prepare_computations
\* of the k-th intersection with the full list gives (n1, n2) = (1.0, 1.5),
\* (1.5, 2.0), (2.0, 2.5), (2.5, 2.5), (2.5, 1.5), (1.5, 1.0) for k = 1..6.
C3_glass_pairs ==
    Prepared /\ call.xs = GlassXs =>
      \A k \in 1..6 :
        call.self = Some(GlassXs[k]) => << retval.n1, retval.n2 >> = GlassPairs[k]

\* the fourth intersection of the list: leaving B while inside C
C3_witness ==
    /\ Prepared
    /\ call.xs = GlassXs
    /\ call.self = Some(GlassXs[4])
    /\ retval.n1 = 25
    /\ retval.n2 = 25

\* the positions of xs that hold an intersection equal to h
Occurrences(xs, h) == { k \in 1..Len(xs) : Intersection_eq(xs[k], h) }

FirstOccurrence(xs, h) ==
    CHOOSE k \in Occurrences(xs, h) : \A j \in Occurrences(xs, h) : k <= j

\* the containers after toggling the shapes of the first n elements of xs in
\* order: a shape that is present leaves, a shape that is absent is appended
RECURSIVE ContainersAfter(_, _)
ContainersAfter(xs, n) ==
    IF n = 0 THEN << >>
    ELSE LET before == ContainersAfter(xs, n - 1)
             object == xs[n].object
         IN  IF \E j \in 1..Len(before) : Shape_eq(before[j], object)
             THEN SelectSeq(before, LAMBDA s : ~Shape_eq(s, object))
             ELSE before \o << object >>

\* the refractive index of the last container, 1.0 when there is none
IndexOfLast(containers) ==
    IF containers = << >> THEN 10
    ELSE containers[Len(containers)].material.refractive_index

\* C4: for a list xs and a hit h that first occurs in xs at position k,
\* prepare_computations sets n1 to the refractive index of the last shape of
\* the containers obtained by toggling the shapes of the elements before
\* position k in order (1.0 when empty) and n2 to that of the containers
\* after toggling the shape at position k as well (1.0 when empty); the
\* elements after position k have no influence on n1 and n2.
C4_n1_n2_from_toggled_prefix ==
    Prepared /\ Occurrences(call.xs, call.self[1]) # {} =>
      LET xs == call.xs
          h == call.self[1]
          k == FirstOccurrence(xs, h)
      IN  /\ retval.n1 = IndexOfLast(ContainersAfter(xs, k - 1))
          /\ retval.n2 = IndexOfLast(ContainersAfter(xs, k))
          /\ \A m \in k..Len(xs) :
               LET cut == prepare_computations(h, call.r[1], SubSeq(xs, 1, m))
               IN  cut.n1 = retval.n1 /\ cut.n2 = retval.n2

\* the hit occurs twice, first inside another shape; an element after its
\* first occurrence would give other indices if the walk went on
C4_witness ==
    /\ Prepared
    /\ Cardinality(Occurrences(call.xs, call.self[1])) = 2
    /\ FirstOccurrence(call.xs, call.self[1]) = 2
    /\ retval.n1 = 20
    /\ retval.n2 = 15
    /\ Len(call.xs) = 3

\* C5: when the list holds no element equal to the hit (the empty list
\* included), prepare_computations gives n1 = 1.0 and n2 = 1.0, whatever the
\* refractive index of the hit shape.
C5_no_hit_in_list_gives_vacuum ==
    Prepared /\ Occurrences(call.xs, call.self[1]) = {} =>
      retval.n1 = 10 /\ retval.n2 = 10

\* a list that holds another intersection of the hit's shape, of index 2.0,
\* but not the hit
C5_witness ==
    /\ Prepared
    /\ Occurrences(call.xs, call.self[1]) = {}
    /\ \E k \in 1..Len(call.xs) : call.xs[k].object = call.self[1].object
    /\ call.self[1].object.material.refractive_index = 20
    /\ retval.n1 = 10
    /\ retval.n2 = 10

(***************************************************************************)
(* Properties of the World (specification Spec).                           *)
(***************************************************************************)
\* the position of the stack where color_at has just called shade_hit: the
\* frame above, not yet started, holds the computations color_at prepared
ColorAtCalls ==
    { n \in 1..(Len(stack) - 1) :
        /\ n = Len(stack) - 1
        /\ stack[n].fn = "color_at"
        /\ Top.pc = "start" }

\* C6: color_at prepares the computations of its hit with the full sorted
\* list intersect_world returned for the ray, so that the n1 and n2 handed to
\* shade_hit are those of the walk over all intersections of the ray with the
\* world (entering a single transparent shape of index r: n1 = 1.0, n2 = r).
C6_color_at_prepares_with_full_list ==
    \A n \in ColorAtCalls :
      LET r == stack[n].r[1]
          xs == intersect_world(objects, r).xs
          full == prepare_computations(hit(xs)[1], r, xs)
          comps == stack[n + 1].comps[1]
      IN  comps.n1 = full.n1 /\ comps.n2 = full.n2

Range(seq) == { seq[k] : k \in 1..Len(seq) }

Count(seq, e) == Cardinality({ k \in 1..Len(seq) : seq[k] = e })

\* every shape's intersect(r) result, one after the other in the order of
\* the World's objects
RECURSIVE Concatenation(_, _, _)
Concatenation(objs, r, k) ==
    IF k > Len(objs) THEN << >>
    ELSE intersect(objs[k], r).xs \o Concatenation(objs, r, k + 1)

IntersectWorldCalled == call.fn = "intersect_world"

\* C7: intersect_world returns a permutation of the concatenation of every
\* shape's intersect(ray) result (same length, nothing dropped, nothing
\* duplicated), with t non-decreasing from the first element to the last.
C7_intersect_world_sorted_permutation ==
    IntersectWorldCalled =>
      LET all == Concatenation(objects, call.r[1], 1)
      IN  /\ Len(retval) = Len(all)
          /\ \A e \in Range(all) \cup Range(retval) : Count(retval, e) = Count(all, e)
          /\ \A k \in 1..(Len(retval) - 1) : retval[k].t <= retval[k + 1].t

\* two shapes contribute, and the sort moved an element: the concatenation
\* is not in order
C7_witness ==
    /\ IntersectWorldCalled
    /\ Len(retval) >= 3
    /\ retval # Concatenation(objects, call.r[1], 1)
    /\ \E k, j \in 1..Len(retval) : retval[k].object.id # retval[j].object.id

\* the position in the World's list of the shape of that id
IndexOf(id) == CHOOSE j \in 1..Len(objects) : objects[j].id = id

\* the shapes (by position) that r meets at parameter t
ShapesMetAt(r, t) ==
    { j \in 1..Len(objects) : \E i \in Range(intersect(objects[j], r).xs) : i.t = t }

\* C8: when two different shapes of the World give intersections of the same
\* least non-negative t for a ray, the hit color_at selects belongs to the
\* shape inserted earlier into the World's list.
C8_tie_goes_to_earlier_shape ==
    \A n \in ColorAtCalls :
      LET r == stack[n].r[1]
          comps == stack[n + 1].comps[1]
      IN  /\ comps.t >= 0
          /\ \A i \in Range(Concatenation(objects, r, 1)) : i.t >= 0 => comps.t <= i.t
          /\ \A j \in ShapesMetAt(r, comps.t) : IndexOf(comps.object.id) <= j

\* the first and the second shape of the World tie at the hit, and the hit
\* is the first shape's
C8_witness ==
    \E n \in ColorAtCalls :
      LET r == stack[n].r[1]
          comps == stack[n + 1].comps[1]
      IN  /\ ShapesMetAt(r, comps.t) = {1, 2}
          /\ comps.object.id = objects[1].id
          /\ objects[1].shape_type = "Plane"

\* C9: reflected_color returns black without a call to color_at whenever
\* remaining is 0 or less, for every material (reflective = 1 included), and
\* whenever the material's reflective coefficient is 0, for every remaining.
C9_reflected_color_black_without_call ==
    [][ ( /\ Running("reflected_color", "start")
          /\ \/ Top.remaining <= 0
             \/ Top.comps[1].object.material.reflective = 0 )
        => ( stack' = Pop /\ retval' = Black ) ]_vars

\* reflected_color was called with remaining = 0 on a material of
\* reflective = 1 and has returned black
C9_witness ==
    /\ Idle
    /\ call.fn = "reflected_color"
    /\ call.remaining = 0
    /\ call.comps[1].object.material.reflective = 10
    /\ retval = Black

\* C10: refracted_color returns black without a call to color_at whenever
\* remaining is 0 or the material's transparency is 0; otherwise, unless
\* total internal reflection applies, it makes exactly one call to color_at,
\* with remaining - 1, and scales the result by the transparency.
C10_refracted_color_calls ==
    [][ /\ ( /\ Running("refracted_color", "start")
             /\ \/ Top.remaining = 0
                \/ Top.comps[1].object.material.transparency = 0 )
           => ( stack' = Pop /\ retval' = Black )
        /\ ( /\ Running("refracted_color", "start")
             /\ Top.remaining # 0
             /\ Top.comps[1].object.material.transparency # 0
             /\ ~total_internal_reflection(Top.comps[1]) )
           => ( /\ Len(stack') = Len(stack) + 1
                /\ stack'[Len(stack')].fn = "color_at"
                /\ stack'[Len(stack')].pc = "start"
                /\ stack'[Len(stack')].remaining = Top.remaining - 1
                /\ stack'[Len(stack)].fn = "refracted_color"
                /\ stack'[Len(stack)].pc = "color_at" )
        /\ Running("refracted_color", "color_at")
           => ( /\ stack' = Pop
                /\ retval' = Color_scale(retval, Top.comps[1].object.material.transparency) )
      ]_vars

\* refracted_color was called with budget left on a transparent shape, cast
\* its ray and returned a colour that is not black
C10_witness ==
    /\ Idle
    /\ call.fn = "refracted_color"
    /\ call.remaining = MaxDepth
    /\ call.comps[1].object.material.transparency = 5
    /\ ~total_internal_reflection(call.comps[1])
    /\ retval # Black


(***************************************************************************)
(* C11                                                                     *)
(***************************************************************************)
\* the frames of color_at in progress, outermost first
ColorAtFrames == { n \in 1..Len(stack) : stack[n].fn = "color_at" }

\* the frame a frame was called from
Caller(n) == stack[n - 1]

\* color_at was called by the user with a budget of 0 or more
ColorAtStarted == call.fn = "color_at" /\ call.remaining >= 0

\* every nested call of color_at was made by reflected_color or
\* refracted_color with a budget one smaller than the caller's, which
\* shade_hit and color_at hand down unchanged; the chain of secondary
\* generations is no longer than the budget d
BudgetChain ==
    /\ \A n \in 1..Len(stack) :
         /\ stack[n].remaining >= 0
         /\ n = 1 => stack[n].fn = "color_at" /\ stack[n].remaining = call.remaining
         /\ n > 1 /\ stack[n].fn = "color_at"
              => /\ Caller(n).fn \in {"reflected_color", "refracted_color"}
                 /\ stack[n].remaining = Caller(n).remaining - 1
         /\ n > 1 /\ stack[n].fn # "color_at"
              => stack[n].remaining = Caller(n).remaining
    /\ Cardinality(ColorAtFrames) <= call.remaining + 1

\* C11: for every World, mutually reflective and transparent shapes
\* included, and every budget d >= 0, color_at(ray, d) terminates, each
\* reflected or refracted call of color_at receives a budget exactly one
\* smaller than its caller's, and no chain of nested calls is longer than d
\* secondary generations.
C11_color_at_terminates_within_budget ==
    /\ [](ColorAtStarted => BudgetChain)
    /\ (ColorAtStarted ~> (Idle /\ ColorAtStarted))

\* a chain of d secondary generations between reflective and transparent
\* faces: the innermost call of color_at runs with the budget spent
C11_witness ==
    /\ ColorAtStarted
    /\ call.remaining = MaxDepth
    /\ Cardinality(ColorAtFrames) = MaxDepth + 1
    /\ Running("color_at", "start")
    /\ Top.remaining = 0
    /\ \E n \in 1..Len(stack) : stack[n].fn = "reflected_color" /\ stack[n].pc = "color_at"
    /\ \E n \in 1..Len(stack) : stack[n].fn = "refracted_color" /\ stack[n].pc = "color_at"


(***************************************************************************)
(* C12                                                                     *)
(***************************************************************************)
\* the hit material is both reflective and transparent
ReflectiveAndTransparent(comps) ==
    comps.object.material.reflective > 0 /\ comps.object.material.transparency > 0

\* surface + reflected * reflectance + refracted * (1 - reflectance), by
\* colour component
WeightedSum(surface, reflected, refracted, reflectance) ==
    [k \in 1..3 |-> surface[k] + Quot(reflected[k] * reflectance, 10)
                               + Quot(refracted[k] * (10 - reflectance), 10)]

\* surface + reflected + refracted
UnweightedSum(surface, reflected, refracted) ==
    [k \in 1..3 |-> surface[k] + reflected[k] + refracted[k]]

\* C12: shade_hit returns surface + reflected * reflectance + refracted *
\* (1 - reflectance) exactly when the hit material has both reflective > 0
\* and transparency > 0, and the unweighted sum surface + reflected +
\* refracted in every other case.
C12_shade_hit_blend ==
    [][ Running("shade_hit", "refracted_color")
        => /\ stack' = Pop
           /\ retval' = IF ReflectiveAndTransparent(Top.comps[1])
                        THEN WeightedSum(Top.surface, Top.reflected, retval,
                                         schlick(Top.comps[1]))
                        ELSE UnweightedSum(Top.surface, Top.reflected, retval)
      ]_vars

\* shade_hit was called with budget left on a face that is both reflective
\* and transparent and returned more than the surface colour
C12_witness ==
    /\ Idle
    /\ call.fn = "shade_hit"
    /\ call.remaining = MaxDepth
    /\ ReflectiveAndTransparent(call.comps[1])
    /\ retval # lighting(call.comps[1].object.material, call.comps[1].object, light,
                         call.comps[1].over_point, call.comps[1].eyev,
                         call.comps[1].normalv,
                         is_shadowed(light, objects, call.comps[1].over_point).shadowed)


(***************************************************************************)
(* C13                                                                     *)
(***************************************************************************)
\* the ray from p toward the light
ShadowRay(p) == Ray_new(p, 2 * Sgn(light.position - p))

\* the t values, none of them negative, at which a ray meets a shape
TsOf(xs) == { xs[k].t : k \in { n \in 1..Len(xs) : xs[n].t >= 0 } }

\* the t values at which the ray from p toward the light meets a shape of
\* the World, none of them negative
ShadowTs(p) ==
    UNION { TsOf(intersect(objects[j], ShadowRay(p)).xs) : j \in 1..Len(objects) }

\* the ray meets a shape at all
MeetsAny(p) ==
    \E j \in 1..Len(objects) : intersect(objects[j], ShadowRay(p)).xs # << >>

\* C13: is_shadowed(p) returns true exactly when the ray from p toward the
\* light has a hit (smallest non-negative t over all shapes) whose t is
\* strictly less than the distance from p to the light; it returns false
\* when there is no hit, when every intersection is behind p, and when the
\* nearest intersection lies at or beyond the light.
C13_is_shadowed ==
    call.fn = "is_shadowed"
    => LET distance == Abs(light.position - call.p)
       IN  /\ retval = ( /\ ShadowTs(call.p) # {}
                         /\ \E t \in ShadowTs(call.p) :
                              /\ \A u \in ShadowTs(call.p) : t <= u
                              /\ t < distance )
           /\ ShadowTs(call.p) = {} => retval = FALSE
           /\ (\A t \in ShadowTs(call.p) : t >= distance) => retval = FALSE

\* is_shadowed has answered true: a shape lies between the point and the
\* light
C13_witness ==
    /\ call.fn = "is_shadowed"
    /\ retval = TRUE
    /\ objects # << >>

\* is_shadowed has answered false with every intersection behind the point
C13_witness_behind ==
    /\ call.fn = "is_shadowed"
    /\ MeetsAny(call.p)
    /\ ShadowTs(call.p) = {}
    /\ retval = FALSE

\* is_shadowed has answered false with the nearest intersection at the light
C13_witness_at_light ==
    /\ call.fn = "is_shadowed"
    /\ ShadowTs(call.p) # {}
    /\ \A t \in ShadowTs(call.p) : t >= Abs(light.position - call.p)
    /\ Abs(light.position - call.p) \in ShadowTs(call.p)
    /\ retval = FALSE

\* is_shadowed has answered false with the nearest intersection beyond the
\* light
C13_witness_beyond ==
    /\ call.fn = "is_shadowed"
    /\ ShadowTs(call.p) # {}
    /\ \A t \in ShadowTs(call.p) : t > Abs(light.position - call.p)
    /\ retval = FALSE


(***************************************************************************)
(* C14                                                                     *)
(***************************************************************************)
\* the shape met by the hit of a ray in the World, if any, is invertible
HitInvertible(r) ==
    LET h == hit(intersect_world(objects, r).xs)
    IN  h # None => invertible(h[1].object.transform)

\* C14: for every shape kind and every ray, Shape::intersect returns the
\* empty sequence when the shape's transform is not invertible, so that such
\* a shape contributes no element to intersect_world and can never be the
\* hit of color_at or the occluder of is_shadowed.
C14_no_intersection_without_inverse ==
    /\ call.fn = "intersect" /\ ~invertible(call.shape.transform)
         => retval.xs = << >>
    /\ call.fn = "intersect_world"
         => \A k \in 1..Len(retval) : invertible(retval[k].object.transform)
    /\ \A n \in 1..Len(stack) :
         /\ stack[n].fn = "shade_hit"
              => invertible(stack[n].comps[1].object.transform)
         /\ stack[n].fn = "shade_hit" /\ stack[n].pc = "start"
              => HitInvertible(Ray_new(stack[n].comps[1].over_point,
                                       normalize(light.position
                                                   - stack[n].comps[1].over_point)))

\* intersect was called on a plane whose transform has no inverse, with a
\* ray that meets the plane of the identity transform
C14_witness ==
    /\ call.fn = "intersect"
    /\ call.shape.shape_type = "Plane"
    /\ ~invertible(call.shape.transform)
    /\ intersect([call.shape EXCEPT !.transform = Matrix_identity], call.r).xs # << >>
    /\ retval.xs = << >>


(***************************************************************************)
(* C15                                                                     *)
(***************************************************************************)
\* C15: color_at never aborts: for every World, ray and budget, worlds
\* whose shapes have zero-determinant transforms and whose materials carry
\* a pattern with a zero-determinant transform included, it returns a colour.
C15_color_at_never_aborts ==
    Idle /\ call.fn = "color_at" => retval # Panic /\ Len(retval) = 3


(***************************************************************************)
(* C16                                                                     *)
(***************************************************************************)
\* C16: a Camera whose transform has zero determinant is handled without a
\* thrown error: ray_for_pixel and render complete for every pixel instead
\* of aborting.
C16_camera_without_inverse_completes ==
    Idle /\ call.fn \in {"ray_for_pixel", "render"} => retval # Panic

(***************************************************************************)
(* C18                                                                     *)
(***************************************************************************)
\* the entries of the log that wrote pixel (x, y)
WritesOf(x, y) == { k \in 1..Len(call.log) : call.log[k].x = x /\ call.log[k].y = y }

\* no coordinate outside the canvas is written and no pixel twice
WritesInRangeOnce ==
    /\ \A k \in 1..Len(call.log) :
         /\ call.log[k].x \in 0..(call.camera.hsize - 1)
         /\ call.log[k].y \in 0..(call.camera.vsize - 1)
    /\ \A x \in 0..(call.camera.hsize - 1), y \in 0..(call.camera.vsize - 1) :
         Cardinality(WritesOf(x, y)) <= 1

\* every pixel was written once, with the colour computed for its own ray,
\* and the canvas returned holds that colour at row y, column x
EveryPixelWritten ==
    /\ retval # Panic
    /\ retval[1] = call.camera.hsize
    /\ retval[2] = call.camera.vsize
    /\ Len(retval[3]) = call.camera.hsize * call.camera.vsize
    /\ \A x \in 0..(call.camera.hsize - 1), y \in 0..(call.camera.vsize - 1) :
         /\ Cardinality(WritesOf(x, y)) = 1
         /\ \A k \in WritesOf(x, y) :
              /\ call.log[k].ray = ray_for_pixel(call.camera, x, y)
              /\ retval[3][y * call.camera.hsize + x + 1] = call.log[k].color

\* C18: Camera::render on an hsize x vsize camera writes every pixel (x, y)
\* with 0 <= x < hsize and 0 <= y < vsize exactly once, writes no coordinate
\* outside that range, and no pixel is written twice; the colour written at
\* (x, y) is the colour computed for the ray of that same pixel.
C18_render_writes_every_pixel_once ==
    call.fn = "render"
    => /\ WritesInRangeOnce
       /\ Idle => EveryPixelWritten

\* the same for the cameras whose transform has an inverse
C18_for_invertible_cameras ==
    call.fn = "render" /\ invertible(call.camera.transform)
    => /\ WritesInRangeOnce
       /\ Idle => EveryPixelWritten

\* render has returned the canvas of a camera of MaxSize x MaxSize pixels,
\* no two of whose rows are alike
C18_rendered ==
    /\ Idle
    /\ call.fn = "render"
    /\ call.camera.hsize = MaxSize
    /\ call.camera.vsize = MaxSize
    /\ retval # Panic
    /\ \A x, y \in 0..(MaxSize - 1) :
         x # y => retval[3][y * MaxSize + x + 1] # retval[3][x * MaxSize + y + 1]


(***************************************************************************)
(* C17                                                                     *)
(***************************************************************************)
\* the shape of the World an intersection was built from
Original(i) == objects[IndexOf(i.object.id)]

\* the intersection holds the shape as it was when intersect built it for
\* the ray r, the local ray of r just stored in it, and one of the t found
BuiltFrom(i, r) ==
    /\ i.object = [Original(i) EXCEPT
                     !.saved_ray = Ray_transform_inverse(r, i.object.transform)]
    /\ \E k \in 1..Len(intersect(Original(i), r).xs) :
         intersect(Original(i), r).xs[k].t = i.t

\* the intersections in the hands of the calls: the one a user prepared
\* shade_hit, reflected_color or refracted_color with, and the hit of each
\* color_at in progress
HeldIntersectionsBuilt ==
    /\ call.fn \in {"shade_hit", "reflected_color", "refracted_color"}
         => BuiltFrom(call.self[1], call.r[1])
    /\ \A n \in 2..Len(stack) :
         stack[n].fn = "shade_hit" /\ stack[n - 1].fn = "color_at"
           => BuiltFrom(Intersection_new(stack[n].comps[1].t, stack[n].comps[1].object),
                        stack[n - 1].r[1])

\* a step leaves the call's intersection and the computations of every
\* frame that stays as they were
HeldIntersectionsKept ==
    /\ call # NoCall => call' = call
    /\ \A n \in 1..Len(stack) :
         n <= Len(stack') /\ stack[n].comps # None => stack'[n].comps = stack[n].comps

NoPush == Len(objects') = Len(objects)

Unsaved(shape) == [shape EXCEPT !.saved_ray = Ray_new(0, 0)]

\* between two calls: the intersections of a shape with the next ray do not
\* depend on the saved_ray the last call left in it
SavedRayNotRead ==
    Idle =>
    \A j \in 1..Len(objects) : \A r \in Rays :
      /\ intersect(Unsaved(objects[j]), r) = intersect(objects[j], r)
      /\ invertible(objects[j].transform)
           => intersect(objects[j], r).shape.saved_ray
                = Ray_transform_inverse(r, objects[j].transform)

NormalPoints == {-8, -4, 0, 4, 8}

\* the vector (0, y, 0)
VectorY(y) == << 0, y, 0 >>

\* shape.normal_at(world_point); line 261 unwraps the inverse
Call_normal_at ==
    /\ Idle
    /\ call = NoCall
    /\ \E shape \in Shapes, world_point \in NormalPoints :
         /\ call' = [fn |-> "normal_at", shape |-> shape, world_point |-> world_point]
         /\ retval' = IF invertible(shape.transform)
                      THEN VectorY(normal_at(shape, world_point))
                      ELSE Panic
    /\ UNCHANGED << light, objects, next_id, stack >>

NextShape ==
    \/ Call_intersect
    \/ Call_normal_at

SpecShape == Init /\ [][NextShape]_vars

(***************************************************************************)
(* C20: normal_at of every shape kind is the local normal in world space.  *)
(***************************************************************************)
\* the four kinds the renderer offers
Kinds == {"Sphere", "Plane", "Cube", "Cylinder"}

\* the world point lies on the surface of the shape: the unit sphere and
\* the cube meet the axis at object y = 1 and y = -1, the plane at object
\* y = 0, and the wall of the cylinder (x * x + z * z = 1) never does
OnSurface(shape, world_point) ==
    CASE shape.shape_type \in {"Sphere", "Cube"} ->
           Abs(world_point - shape.transform.ty) = Abs(shape.transform.s)
      [] shape.shape_type = "Plane" -> world_point = shape.transform.ty
      [] OTHER -> FALSE

\* the local normal of the kind at a surface point, in halves: outward on
\* the sphere and on the faces of the cube, (0, 1, 0) on the plane
LocalNormal(shape, world_point) ==
    IF shape.shape_type = "Plane" THEN 2
    ELSE 2 * Sgn(object_point(shape, world_point)) * Sgn(shape.transform.s)

\* the local normal multiplied by the transpose of the inverse transform
\* (its linear part is 1 / s), w set to 0, and normalised
WorldNormal(shape, world_point) ==
    normalize(Quot(4 * LocalNormal(shape, world_point), shape.transform.s))

AtSurfaceNormal ==
    /\ Idle
    /\ call.fn = "normal_at"
    /\ call.shape.shape_type \in Kinds
    /\ invertible(call.shape.transform)
    /\ OnSurface(call.shape, call.world_point)

\* C20: for a shape of any of the four kinds with an invertible transform,
\* normal_at at a point of its surface returns the kind's local normal
\* mapped to world space by the transpose of the inverse transform, with
\* w = 0 and renormalised: a unit vector that follows the transform.
C20_normal_at_maps_local_normal ==
    AtSurfaceNormal => retval = VectorY(WorldNormal(call.shape, call.world_point))

\* the part of C20 that the code does keep: the sphere, whose branch
\* multiplies by the transposed inverse and normalises
C20_sphere_normal ==
    AtSurfaceNormal /\ call.shape.shape_type = "Sphere"
      => retval = VectorY(WorldNormal(call.shape, call.world_point))

\* a mirrored cube asked for the normal of its upper face
C20_mirrored_cube ==
    /\ AtSurfaceNormal
    /\ call.shape.shape_type = "Cube"
    /\ call.shape.transform = Matrix_scaling(-4)
    /\ call.world_point = 4



(***************************************************************************)
(* C21                                                                     *)
(***************************************************************************)
\* the t values of a list, negative ones included
AllTs(xs) == { xs[k].t : k \in 1..Len(xs) }

\* every t at which the ray meets a shape of the world
MeetingTs(r) ==
    UNION { AllTs(intersect(objects[j], r).xs) : j \in 1..Len(objects) }

\* the ray has no intersection with non-negative t
NothingAhead(r) == \A t \in MeetingTs(r) : t < 0

\* the last ray every shape with an inverse has seen is r: no other ray has
\* been cast since
LastRayCast(objs, r) ==
    \A j \in 1..Len(objs) :
      invertible(objs[j].transform)
        => objs[j].saved_ray = Ray_transform_inverse(r, objs[j].transform)

\* C21: color_at returns black for every ray that has no intersection with
\* non-negative t in the world (no shape met, or every intersection behind
\* the origin of the ray), without calling shade_hit and without casting a
\* shadow, reflection or refraction ray: it returns in one step, no frame is
\* pushed and the ray of the call is the last one the shapes have seen.
C21_color_at_black_on_miss ==
    [][ ( Running("color_at", "start") /\ NothingAhead(Top.r[1]) )
        => ( /\ stack' = Pop
             /\ retval' = Black
             /\ LastRayCast(objects', Top.r[1]) ) ]_vars

\* a nested color_at whose ray has left a shape behind: every intersection
\* has a negative t
C21_witness ==
    /\ Running("color_at", "start")
    /\ NothingAhead(Top.r[1])
    /\ MeetingTs(Top.r[1]) # {}

\* color_at called by the user on a world whose only shape has no inverse
\* has returned black
C21_witness_no_shape_met ==
    /\ Idle
    /\ call.fn = "color_at"
    /\ objects # << >>
    /\ MeetingTs(call.r[1]) = {}
    /\ retval = Black

\* a nested color_at has returned black to reflected_color for a ray whose
\* intersections all lie behind its origin
C21_witness_returned ==
    /\ Running("reflected_color", "color_at")
    /\ retval = Black
    /\ LET reflect_ray == Ray_new(Top.comps[1].over_point, Top.comps[1].reflectv)
       IN  /\ NothingAhead(reflect_ray)
           /\ MeetingTs(reflect_ray) # {}
           /\ LastRayCast(objects, reflect_ray)



(***************************************************************************)
(* The Cylinder arm of Shape::intersect, lines 220-256, for rays that      *)
(* leave the axis: origin and direction are triples (x, y, z), the origin  *)
(* in quarters, the direction in halves, t in quarters.                    *)
(***************************************************************************)
\* lines 245 and 250 with the bounds included
cylinder_keeps_closed(self, y) == self.minimum <= y /\ y <= self.maximum

\* lines 245 and 250: minimum < y && y < maximum
cylinder_keeps(self, y) == self.minimum < y /\ y < self.maximum

\* lines 244-247 and 249-252: the root pushed when its y is kept
cylinder_push(self, intersections, t, y) ==
    IF cylinder_keeps(self, y) THEN Append(intersections, Intersection_new(t, self))
    ELSE intersections

\* lines 244-254, t0 <= t1
cylinder_bounded(self, t0, t1) ==
    cylinder_push(self,
                  cylinder_push(self, << >>, t0,
                                self.saved_ray.origin[2]
                                  + Quot(t0 * self.saved_ray.direction[2], 2)),
                  t1,
                  self.saved_ray.origin[2] + Quot(t1 * self.saved_ray.direction[2], 2))

\* lines 240-242
cylinder_ordered(self, t0, t1) ==
    IF t0 > t1 THEN cylinder_bounded(self, t1, t0) ELSE cylinder_bounded(self, t0, t1)

\* lines 232-255, with a times 4, b times 4 and c times 16 computed
cylinder_roots(self, a, b, c) ==
    IF b * b - a * c < 0 THEN << >>
    ELSE cylinder_ordered(self, Quot(2 * (-b - Isqrt(b * b - a * c)), a),
                                Quot(2 * (-b + Isqrt(b * b - a * c)), a))

\* lines 220-256, self holding the local ray
cylinder_intersect(self) ==
    LET O == self.saved_ray.origin
        D == self.saved_ray.direction
    IN  \* a <= epsilon: a is a sum of squares of halves
        IF D[1] * D[1] + D[3] * D[3] = 0 THEN << >>
        ELSE cylinder_roots(self, D[1] * D[1] + D[3] * D[3],
                            O[1] * D[1] + O[3] * D[3],
                            O[1] * O[1] + O[3] * O[3] - 16)

\* the cylinders of the tests of shape.rs: unbounded, and cut at 1 and 2;
\* one cut at -1 and 1
Cylinders ==
    { [Shape_new(0, "Cylinder") EXCEPT !.minimum = b[1], !.maximum = b[2]] :
        b \in { << -INFINITY, INFINITY >>, << 4, 8 >>, << -4, 4 >> } }

\* rays in planes of constant x, as those of the tests: beside, touching and
\* through the wall, level, rising and falling, and along y only
CylinderRays ==
    { Ray_new(<< ox, oy, oz >>, << 0, dy, dz >>) :
        ox \in {0, 4, 8}, oy \in {0, 4, 6, 8, 12}, oz \in {-20, -8, 0},
        dy \in -2..2, dz \in {-2, 0, 2} }

\* cyl.intersect(r) for a cylinder with the identity transform: the local
\* ray is r
Call_cylinder_intersect ==
    /\ Idle
    /\ call = NoCall
    /\ \E cyl \in Cylinders, r \in CylinderRays :
         /\ call' = [fn |-> "cylinder_intersect", shape |-> cyl, r |-> r]
         /\ retval' = [ xs |-> cylinder_intersect([cyl EXCEPT !.saved_ray = r]),
                        shape |-> [cyl EXCEPT !.saved_ray = r] ]
    /\ UNCHANGED << light, objects, next_id, stack >>

NextCylinder ==
    \/ Call_cylinder_intersect

SpecCylinder == Init /\ [][NextCylinder]_vars

(***************************************************************************)
(* C22                                                                     *)
(***************************************************************************)
CylinderCalled == Idle /\ call.fn = "cylinder_intersect"

\* the t values, in quarters, that can be a root for the rays at hand
WallTs == -48..48

\* the point of the ray at t lies on the wall x * x + z * z = 1 (the
\* coordinates doubled)
OnWall(r, t) ==
    (2 * r.origin[1] + t * r.direction[1]) * (2 * r.origin[1] + t * r.direction[1])
      + (2 * r.origin[3] + t * r.direction[3]) * (2 * r.origin[3] + t * r.direction[3])
      = 64

\* the y coordinate of the ray at t lies strictly between the bounds (the
\* coordinates doubled)
StrictlyBetween(cyl, r, t) ==
    /\ 2 * cyl.minimum < 2 * r.origin[2] + t * r.direction[2]
    /\ 2 * r.origin[2] + t * r.direction[2] < 2 * cyl.maximum

\* the wall roots of the ray that the bounds keep
KeptRoots(cyl, r) ==
    { t \in WallTs : /\ r.direction[1] # 0 \/ r.direction[3] # 0
                     /\ OnWall(r, t)
                     /\ StrictlyBetween(cyl, r, t) }

\* C22: for a cylinder with minimum < maximum, intersect keeps a wall root
\* t exactly when the y coordinate of the local ray at t lies strictly
\* between minimum and maximum (a root at a bound is dropped); it returns
\* 0, 1 or 2 intersections, two of them in non-decreasing order of t.
C22_cylinder_roots_strictly_inside ==
    CylinderCalled =>
      /\ AllTs(retval.xs) = KeptRoots(call.shape, call.r)
      /\ Len(retval.xs) \in 0..2
      /\ Len(retval.xs) = 2 => retval.xs[1].t <= retval.xs[2].t

\* a level ray through the wall at the height of a bound: both roots are
\* on the wall at y = minimum and none is returned
C22_witness ==
    /\ CylinderCalled
    /\ call.shape.minimum = 4
    /\ call.r.origin[2] = 4
    /\ call.r.direction[2] = 0
    /\ \E t \in WallTs : OnWall(call.r, t)
    /\ retval.xs = << >>

\* a rising ray of which the bounds keep the second root only
C22_witness_one ==
    /\ CylinderCalled
    /\ Len(retval.xs) = 1
    /\ \E t \in WallTs : OnWall(call.r, t) /\ t < retval.xs[1].t

\* two roots kept, the first smaller than the second
C22_witness_two ==
    /\ CylinderCalled
    /\ call.shape.minimum = 4
    /\ Len(retval.xs) = 2
    /\ retval.xs[1].t < retval.xs[2].t



(***************************************************************************)
(* Material::lighting called on its own, as the tests of material.rs call  *)
(* it.                                                                     *)
(***************************************************************************)
\* the default material, a red one with other coefficients, and one with a
\* stripe pattern
Materials ==
    { Material_new,
      [Material_new EXCEPT !.color = Color_new(10, 0, 0), !.ambient = 2,
                           !.diffuse = 5, !.specular = 3],
      [Material_new EXCEPT !.pattern = Some(stripe_pattern(Color_new(0, 10, 0), Black))] }

\* the point lit, on either side of the lights of Lights
LitPoints == {-20, 0, 20}

\* unit vectors of the axis, in halves
UnitVectors == {-2, 2}

\* m.lighting(Shape::test_shape(), &light, position, eyev, normalv, in_shadow)
Call_lighting ==
    /\ Idle
    /\ call = NoCall
    /\ \E material \in Materials, l \in Lights, point \in LitPoints,
          eyev \in UnitVectors, normalv \in UnitVectors, in_shadow \in BOOLEAN :
         /\ call' = [ fn |-> "lighting", material |-> material, light |-> l,
                      point |-> point, eyev |-> eyev, normalv |-> normalv,
                      in_shadow |-> in_shadow ]
         /\ retval' = lighting(material, Shape_new(0, "Test"), l, point, eyev,
                               normalv, in_shadow)
    /\ UNCHANGED << light, objects, next_id, stack >>

NextLighting ==
    \/ Call_lighting

SpecLighting == Init /\ [][NextLighting]_vars

(***************************************************************************)
(* C23                                                                     *)
(***************************************************************************)
LightingCalled == Idle /\ call.fn = "lighting"

\* the colour of the surface under the light: the pattern's colour at the
\* point where the material has a pattern
EffectiveColor ==
    Color_mul(IF call.material.pattern = None THEN call.material.color
              ELSE call.material.pattern[1].a,
              call.light.intensity)

AmbientTerm == Color_scale(EffectiveColor, call.material.ambient)

\* the light lies behind the surface: the direction to the light and the
\* normal have a negative dot product
LightBehind == Sgn(call.light.position - call.point) * call.normalv < 0

\* the reflection of the light's direction and the eye vector have a
\* positive dot product; on the axis the reflection points to the light
ReflectionMeetsEye == Sgn(call.light.position - call.point) * call.eyev > 0

\* the result less the ambient term, channel by channel
AboveAmbient == [k \in 1..3 |-> retval[k] - AmbientTerm[k]]

\* the diffuse term for a light straight above the surface
DiffuseTerm == Color_scale(EffectiveColor, call.material.diffuse)

\* the specular term for an eye in the reflection: factor 1
SpecularTerm == Color_scale(call.light.intensity, call.material.specular)

\* C23: lighting returns exactly the ambient contribution whenever
\* in_shadow is true or the light lies behind the surface; the ambient term
\* is part of the result in every case, and the specular term is added only
\* when additionally the reflection vector and the eye vector have a
\* positive dot product.
C23_lighting_ambient_only ==
    LightingCalled =>
      /\ (call.in_shadow \/ LightBehind) => retval = AmbientTerm
      /\ ~(call.in_shadow \/ LightBehind) /\ ~ReflectionMeetsEye
           => AboveAmbient = DiffuseTerm
      /\ ~(call.in_shadow \/ LightBehind) /\ ReflectionMeetsEye
           => AboveAmbient = Color_add(DiffuseTerm, SpecularTerm)

\* a point in shadow, the light in front of the surface and the eye in the
\* reflection: ambient only, where diffuse and specular would not be black
C23_witness ==
    /\ LightingCalled
    /\ call.in_shadow
    /\ ~LightBehind
    /\ ReflectionMeetsEye
    /\ retval = AmbientTerm
    /\ DiffuseTerm # Black
    /\ SpecularTerm # Black

\* the light behind the surface, the point not in shadow
C23_witness_behind ==
    /\ LightingCalled
    /\ ~call.in_shadow
    /\ LightBehind
    /\ retval = AmbientTerm

\* lit, with the specular term
C23_witness_specular ==
    /\ LightingCalled
    /\ ~call.in_shadow
    /\ ~LightBehind
    /\ ReflectionMeetsEye
    /\ retval = Color_add(Color_add(AmbientTerm, DiffuseTerm), SpecularTerm)
    /\ SpecularTerm # Black

\* lit, the eye away from the reflection: no specular term
C23_witness_diffuse ==
    /\ LightingCalled
    /\ ~call.in_shadow
    /\ ~LightBehind
    /\ ~ReflectionMeetsEye
    /\ retval = Color_add(AmbientTerm, DiffuseTerm)



(***************************************************************************)
(* C24                                                                     *)
(***************************************************************************)
\* the frames of shade_hit in progress: each holds the computations that
\* color_at or the user prepared
ShadeHitFrames == { n \in 1..Len(stack) : stack[n].fn = "shade_hit" }

\* the ray the computations of frame n were prepared with: the ray of the
\* color_at that called shade_hit, or the ray of the user's call
PreparedRay(n) == IF n = 1 THEN call.r[1] ELSE Caller(n).r[1]

\* the normal of the shape at the hit point, as normal_at gives it
GeometricNormal(comps) == normal_at(comps.object, comps.point)

FlippedWhenFacingAway(comps, r) ==
    /\ comps.eyev = -r.direction
    /\ comps.inside <=> (GeometricNormal(comps) * comps.eyev < 0)
    /\ comps.inside => comps.normalv = -GeometricNormal(comps)
    /\ ~comps.inside => comps.normalv = GeometricNormal(comps)
    /\ comps.normalv * comps.eyev >= 0

\* C24: prepare_computations sets inside and negates the normal exactly
\* when the shape's normal at the hit point and the eye vector have a
\* negative dot product, and otherwise leaves the normal as computed with
\* inside = false; in every Computations the dot product of normalv and eyev
\* is >= 0 and eyev is the negated direction of the ray.
C24_normal_faces_the_eye ==
    \A n \in ShadeHitFrames : FlippedWhenFacingAway(stack[n].comps[1], PreparedRay(n))

\* a nested shade_hit for a hit from inside a shape, the normal flipped
C24_witness ==
    \E n \in ShadeHitFrames :
      /\ n > 1
      /\ stack[n].comps[1].inside
      /\ stack[n].comps[1].normalv = -GeometricNormal(stack[n].comps[1])
      /\ stack[n].comps[1].normalv * stack[n].comps[1].eyev > 0

\* a shade_hit for a hit from outside, the normal as normal_at gave it
C24_witness_outside ==
    \E n \in ShadeHitFrames :
      /\ ~stack[n].comps[1].inside
      /\ stack[n].comps[1].normalv = GeometricNormal(stack[n].comps[1])
      /\ stack[n].comps[1].normalv * stack[n].comps[1].eyev > 0



(***************************************************************************)
(* C25                                                                     *)
(***************************************************************************)
\* the frames that hold computations
CompsFrames == { n \in 1..Len(stack) : stack[n].comps # None }

\* both points are the hit point moved by normalv * epsilon, over_point to
\* the side of the eye and under_point to the other side
BiasedPoints(comps) ==
    /\ comps.over_point = comps.point + Quot(comps.normalv * EPSILON, 2)
    /\ comps.under_point = comps.point - Quot(comps.normalv * EPSILON, 2)
    /\ (comps.over_point - comps.point) * comps.eyev > 0
    /\ (comps.under_point - comps.point) * comps.eyev < 0

\* the ray of a nested color_at starts at the over_point of the
\* reflected_color that cast it, or at the under_point of the
\* refracted_color that cast it
SecondaryRayOrigins ==
    \A n \in ColorAtFrames :
      /\ n > 1 /\ Caller(n).fn = "reflected_color"
           => stack[n].r[1].origin = Caller(n).comps[1].over_point
      /\ n > 1 /\ Caller(n).fn = "refracted_color"
           => stack[n].r[1].origin = Caller(n).comps[1].under_point

\* the step of shade_hit that asks is_shadowed leaves every shape with the
\* ray from over_point toward the light as the last ray seen
ShadowRayFromOverPoint ==
    Running("shade_hit", "start")
      => LastRayCast(objects', ShadowRay(Top.comps[1].over_point))

C25_witness_reflected ==
    /\ Running("color_at", "start")
    /\ Len(stack) > 1
    /\ Caller(Len(stack)).fn = "reflected_color"
    /\ Top.r[1].origin = Caller(Len(stack)).comps[1].over_point
    /\ Top.r[1].origin # Caller(Len(stack)).comps[1].under_point



(***************************************************************************)
(* A Canvas of the user's own, as the tests of canvas.rs use it: retval    *)
(* holds the canvas, call the operation applied to it last.                *)
(***************************************************************************)
\* Canvas::pixel_at with the index computed as x * width + y
pixel_at_column_major(canvas, x, y) ==
    IF x * canvas[1] + y < 0 \/ x * canvas[1] + y >= Len(canvas[3]) THEN Panic
    ELSE canvas[3][x * canvas[1] + y + 1]

\* Canvas::pixel_at: pixels.get(i).unwrap()
pixel_at(canvas, x, y) ==
    IF y * canvas[1] + x < 0 \/ y * canvas[1] + x >= Len(canvas[3]) THEN Panic
    ELSE canvas[3][y * canvas[1] + x + 1]

\* width and height of the canvases: a single pixel, a tall and a wide one
CanvasSizes == { << 1, 1 >>, << 2, 3 >>, << 3, 2 >> }

\* Canvas::new(width, height)
Call_Canvas_new ==
    /\ Idle
    /\ call = NoCall
    /\ \E size \in CanvasSizes :
         /\ call' = [fn |-> "Canvas_new", width |-> size[1], height |-> size[2]]
         /\ retval' = Canvas_new(size[1], size[2])
    /\ UNCHANGED << light, objects, next_id, stack >>

\* c.write_pixel(x, y, color), x and y in range or one beyond it
Call_write_pixel ==
    /\ Idle
    /\ call.fn \in {"Canvas_new", "write_pixel"}
    /\ retval # Panic
    /\ \E x \in 0..retval[1], y \in 0..retval[2], c \in PixelColors :
         /\ call' = [fn |-> "write_pixel", x |-> x, y |-> y, c |-> c]
         /\ retval' = write_pixel(retval, x, y, c)
    /\ UNCHANGED << light, objects, next_id, stack >>

NextCanvas ==
    \/ Call_Canvas_new
    \/ Call_write_pixel

SpecCanvas == Init /\ [][NextCanvas]_vars

(***************************************************************************)
(* C26                                                                     *)
(***************************************************************************)
\* the coordinates in range of a canvas
InRange(canvas) == (0..(canvas[1] - 1)) \X (0..(canvas[2] - 1))

\* every pixel of a new canvas reads black
NewCanvasBlack ==
    Idle /\ call.fn = "Canvas_new"
      => /\ retval[1] = call.width
         /\ retval[2] = call.height
         /\ \A q \in InRange(retval) : pixel_at(retval, q[1], q[2]) = Black

\* a write in range is read back at its coordinates and nowhere else, and
\* leaves width and height alone
WriteKeepsOthers ==
    ( /\ call'.fn = "write_pixel"
      /\ << call'.x, call'.y >> \in InRange(retval) )
    => /\ pixel_at(retval', call'.x, call'.y) = call'.c
       /\ \A q \in InRange(retval) \ { << call'.x, call'.y >> } :
            pixel_at(retval', q[1], q[2]) = pixel_at(retval, q[1], q[2])
       /\ retval'[1] = retval[1]
       /\ retval'[2] = retval[2]

\* C26: on a Canvas of width w and height h every pixel reads black after
\* Canvas::new; after write_pixel(x, y, c) with x and y in range,
\* pixel_at(x, y) returns c and pixel_at of every other coordinate in range
\* returns what it returned before; width and height never change.
C26_canvas_cells ==
    /\ []NewCanvasBlack
    /\ [][WriteKeepsOthers]_vars

\* a canvas wider than tall after a write in its second row: the pixel
\* written reads red, one written before still reads white and a third is
\* still black
C26_witness ==
    /\ Idle
    /\ call.fn = "write_pixel"
    /\ retval # Panic
    /\ retval[1] = 3
    /\ << call.x, call.y >> = << 0, 1 >>
    /\ pixel_at(retval, 0, 1) = Color_new(10, 0, 0)
    /\ pixel_at(retval, 1, 0) = White
    /\ pixel_at(retval, 2, 1) = Black



(***************************************************************************)
(* C27                                                                     *)
(***************************************************************************)
\* the containers of the walk after the first n elements of xs
ContainersOfWalk(xs, n) == containers_walk(SubSeq(xs, 1, n), 1, << >>)

NoTwoEqual(containers) ==
    \A i, j \in 1..Len(containers) : i # j => ~Shape_eq(containers[i], containers[j])

\* the shape at position p of xs has entered there and not left within the
\* first n elements: no equal shape follows it, and it is the last of an odd
\* number of equal shapes
EnteredLast(xs, n, p) ==
    /\ \A q \in (p + 1)..n : ~Shape_eq(xs[q].object, xs[p].object)
    /\ Cardinality({ q \in 1..p : Shape_eq(xs[q].object, xs[p].object) }) % 2 = 1

\* the shapes, as the list holds them, that have entered last at a position
\* from p on, in the order of these positions
RECURSIVE OddShapesFrom(_, _, _)
OddShapesFrom(xs, n, p) ==
    IF p > n THEN << >>
    ELSE IF EnteredLast(xs, n, p) THEN << xs[p].object >> \o OddShapesFrom(xs, n, p + 1)
    ELSE OddShapesFrom(xs, n, p + 1)

OddShapes(xs, n) == OddShapesFrom(xs, n, 1)

\* C27: at every step of the containment walk of prepare_computations, for
\* any list, containers holds no two equal shapes, and after a prefix of the
\* list it holds exactly the shapes that occur an odd number of times in the
\* prefix, in the order of their latest entering occurrence.
C27_containers_odd_occurrences ==
    Prepared =>
      \A n \in 0..Len(call.xs) :
        /\ NoTwoEqual(ContainersOfWalk(call.xs, n))
        /\ ContainersOfWalk(call.xs, n) = OddShapes(call.xs, n)

\* a list in which a shape enters, leaves and enters again as a copy with
\* another refractive index, behind a shape that entered in between
C27_witness ==
    /\ Prepared
    /\ Len(call.xs) = 3
    /\ call.xs[1].object = GlassA
    /\ call.xs[2].object = GlassB
    /\ call.xs[3].object = GlassA2
    /\ ContainersOfWalk(call.xs, 2) = << GlassA, GlassB >>
    /\ ContainersOfWalk(call.xs, 3) = << GlassB >>



(***************************************************************************)
(* Shape's and Intersection's == applied to a shape and a copy of it with  *)
(* some fields set to other values.                                        *)
(***************************************************************************)
\* the fields of a Shape, those of its Material (pub fields, a user sets
\* them), the id (a shape constructed separately has another Uuid) and the
\* t of the Intersection that holds the shape
Fields ==
    { "id", "shape_type", "transform", "saved_ray", "minimum", "maximum",
      "color", "ambient", "diffuse", "specular", "shininess", "pattern",
      "reflective", "transparency", "refractive_index", "t" }

\* the shape with the fields of the set given another value
Varied(a, changed) ==
    [ id |-> IF "id" \in changed THEN a.id + 1 ELSE a.id,
      shape_type |-> IF "shape_type" \in changed THEN "Cube" ELSE a.shape_type,
      transform |-> IF "transform" \in changed THEN Matrix_translation(-4)
                    ELSE a.transform,
      saved_ray |-> IF "saved_ray" \in changed THEN Ray_new(-20, 2) ELSE a.saved_ray,
      minimum |-> IF "minimum" \in changed THEN 4 ELSE a.minimum,
      maximum |-> IF "maximum" \in changed THEN 8 ELSE a.maximum,
      material |->
        [ color |-> IF "color" \in changed THEN Color_new(10, 0, 0)
                    ELSE a.material.color,
          ambient |-> IF "ambient" \in changed THEN a.material.ambient + 1
                      ELSE a.material.ambient,
          diffuse |-> IF "diffuse" \in changed THEN a.material.diffuse - 1
                      ELSE a.material.diffuse,
          specular |-> IF "specular" \in changed THEN a.material.specular - 1
                       ELSE a.material.specular,
          shininess |-> IF "shininess" \in changed THEN a.material.shininess - 100
                        ELSE a.material.shininess,
          pattern |-> IF "pattern" \in changed THEN Some(stripe_pattern(White, Black))
                      ELSE a.material.pattern,
          reflective |-> IF "reflective" \in changed THEN 5
                         ELSE a.material.reflective,
          transparency |-> IF "transparency" \in changed THEN 5
                           ELSE a.material.transparency,
          refractive_index |-> IF "refractive_index" \in changed THEN 20
                               ELSE a.material.refractive_index ] ]

\* a == b for the shapes, for the intersections that hold them, and the
\* test of line 62 whether containers holding a contains b
Call_eq ==
    /\ Idle
    /\ call = NoCall
    /\ \E a \in { Shape_new(1, "Sphere"), Shape_new(1, "Cylinder") },
          changed \in SUBSET Fields :
         /\ call' = [ fn |-> "eq", a |-> a, b |-> Varied(a, changed),
                      changed |-> changed ]
         /\ retval' = [ shape |-> Shape_eq(a, Varied(a, changed)),
                        intersection |->
                          Intersection_eq(
                            Intersection_new(0, a),
                            Intersection_new(IF "t" \in changed THEN 1 ELSE 0,
                                             Varied(a, changed))),
                        contained |-> position_of(<< a >>, Varied(a, changed), 1) # 0 ]
    /\ UNCHANGED << light, objects, next_id, stack >>

NextEq ==
    \/ Call_eq

SpecEq == Init /\ [][NextEq]_vars

(***************************************************************************)
(* C28                                                                     *)
(***************************************************************************)
\* the fields the equality of shapes depends on
ComparedFields ==
    { "id", "shape_type", "transform", "color", "ambient", "diffuse", "specular",
      "shininess" }

EqCalled == Idle /\ call.fn = "eq"

\* C28: the equality of shapes, and with it the equality of intersections
\* and the membership test of the containment walk, depends only on the id,
\* kind and transform of the shape and on colour, ambient, diffuse, specular
\* and shininess of its material: copies that differ only in saved_ray,
\* minimum, maximum, reflective, transparency, refractive_index or pattern
\* compare equal, and a shape constructed separately (another id) never
\* compares equal.
C28_shape_equality_fields ==
    EqCalled =>
      /\ retval.shape <=> (call.changed \cap ComparedFields = {})
      /\ retval.contained <=> retval.shape
      /\ retval.intersection <=> (retval.shape /\ "t" \notin call.changed)

\* a copy that differs in every field the equality does not read
C28_witness ==
    /\ EqCalled
    /\ call.changed = (Fields \ ComparedFields) \ {"t"}
    /\ call.a # call.b
    /\ retval.shape
    /\ retval.intersection
    /\ retval.contained

\* a shape constructed separately with the same fields
C28_witness_separate ==
    /\ EqCalled
    /\ call.changed = {"id"}
    /\ ~retval.shape
    /\ ~retval.contained



(***************************************************************************)
(* Shape::intersect called again on the shape a call has left, the user    *)
(* having assigned another transform (a pub field) in between.             *)
(***************************************************************************)
Call_intersect_again ==
    /\ Idle
    /\ call.fn = "intersect"
    /\ \E m \in Transforms, r \in Rays :
         /\ call' = [ fn |-> "intersect",
                      shape |-> [retval.shape EXCEPT !.transform = m], r |-> r ]
         /\ retval' = intersect([retval.shape EXCEPT !.transform = m], r)
    /\ UNCHANGED << light, objects, next_id, stack >>

NextIntersect ==
    \/ Call_intersect
    \/ Call_intersect_again

SpecIntersect == Init /\ [][NextIntersect]_vars

(***************************************************************************)
(* C29                                                                     *)
(***************************************************************************)
IntersectCalled == Idle /\ call.fn = "intersect"

\* the saved_ray the call is to leave: the ray transformed by the inverse,
\* or the one the shape had
SavedRayAfter(shape, r) ==
    IF invertible(shape.transform) THEN Ray_transform_inverse(r, shape.transform)
    ELSE shape.saved_ray

\* C29: Shape::intersect changes at most the saved_ray of the shape: id,
\* kind, transform, material, minimum and maximum are as before.  With an
\* invertible transform saved_ray becomes the ray transformed by the
\* inverse, for every kind, the Test kind that returns no intersection
\* included; with a transform that has no inverse saved_ray keeps its
\* value.
C29_intersect_changes_saved_ray_only ==
    IntersectCalled =>
      /\ retval.shape.id = call.shape.id
      /\ retval.shape.shape_type = call.shape.shape_type
      /\ retval.shape.transform = call.shape.transform
      /\ retval.shape.material = call.shape.material
      /\ retval.shape.minimum = call.shape.minimum
      /\ retval.shape.maximum = call.shape.maximum
      /\ retval.shape.saved_ray = SavedRayAfter(call.shape, call.r)

\* a shape that holds the local ray of an earlier call is given a transform
\* without inverse and intersected with another ray: the saved_ray stays
C29_witness ==
    /\ IntersectCalled
    /\ ~invertible(call.shape.transform)
    /\ call.shape.saved_ray # Ray_new(0, 0)
    /\ call.shape.saved_ray # Ray_transform_inverse(call.r, Matrix_identity)
    /\ retval.shape.saved_ray = call.shape.saved_ray

\* a shape of the Test kind, scaled: no intersection, and the local ray of
\* the call in place of the one of an earlier call
C29_witness_test_shape ==
    /\ IntersectCalled
    /\ call.shape.shape_type = "Test"
    /\ call.shape.transform = Matrix_scaling(8)
    /\ call.shape.saved_ray # Ray_new(0, 0)
    /\ retval.xs = << >>
    /\ retval.shape.saved_ray = Ray_transform_inverse(call.r, Matrix_scaling(8))
    /\ retval.shape.saved_ray # call.shape.saved_ray



(***************************************************************************)
(* C30                                                                     *)
(***************************************************************************)
\* the budget of every call in progress lies between 0 and the budget the
\* user passed
BudgetsInRange == \A n \in 1..Len(stack) : stack[n].remaining \in 0..call.remaining

\* refracted_color casts its ray only with a budget of 1 or more, and at a
\* budget of 0 returns black at once
RefractionStopsAtZero ==
    ColorAtStarted /\ Running("refracted_color", "start")
      => /\ Top.remaining = 0 => stack' = Pop /\ retval' = Black
         /\ Len(stack') > Len(stack)
              => Top.remaining >= 1 /\ stack'[Len(stack')].remaining >= 0

\* C30: in every execution started by color_at(ray, d) with d >= 0 the
\* budget passed to each nested shade_hit, reflected_color, refracted_color
\* and color_at lies in 0..d; hence the base case of refracted_color, which
\* tests remaining == 0 only, is reached on every refraction chain before
\* the budget could pass below zero.
C30_budget_never_negative ==
    /\ [](ColorAtStarted => BudgetsInRange)
    /\ [][RefractionStopsAtZero]_vars

\* a chain of refractions has used up the budget: refracted_color is about
\* to run at budget 0 on a transparent shape without total internal
\* reflection, where only the test of the budget stops it
C30_witness ==
    /\ ColorAtStarted
    /\ call.remaining = MaxDepth
    /\ Running("refracted_color", "start")
    /\ Top.remaining = 0
    /\ Top.comps[1].object.material.transparency > 0
    /\ ~total_internal_reflection(Top.comps[1])
    /\ \E n \in 1..Len(stack) : stack[n].fn = "refracted_color" /\ stack[n].pc = "color_at"

\* what the claim excludes: from a budget below 0 the refraction chain goes
\* on with budgets further below
C30_negative_budget_descends ==
    /\ call.fn = "color_at"
    /\ call.remaining < 0
    /\ \E n \in ColorAtFrames : stack[n].remaining < call.remaining

=============================================================================
